---------------------------- MODULE Spec2Model ----------------------------
(***************************************************************************)
(* tageval: tag-driven validation of Go values.                            *)
(*                                                                         *)
(* The model follows the latest revision of the package found in the       *)
(* sources (Validator.traverse / Validator.processTag with the "safe"      *)
(* parameter, evaluator.evalBoolExpr / evaluator.evalRegexp).              *)
(*                                                                         *)
(* Texts (field names, tag texts, rule texts, string values) are sequences *)
(* of one-character strings, so that trimming, prefix and suffix tests,    *)
(* the shorthand rewrite, tokenizing and matching are computed.            *)
(*                                                                         *)
(* The embedded JavaScript engine and the regexp engine are libraries the  *)
(* package calls.  They are modelled on a subset of their languages:       *)
(*   expressions: identifiers, decimal numbers, ! < <= > >= == != and      *)
(*                assignment, white space between tokens;                  *)
(*   patterns:    literal characters with an optional leading ^ and an     *)
(*                optional trailing $; a '[' that is never closed is a     *)
(*                syntax error.                                            *)
(***************************************************************************)
EXTENDS Integers, Sequences, FiniteSets, TLC

VARIABLES asJSON, showSuccesses, eval, item, call, ret, trail, before, ncalls,
          tasks

vars ==
  <<asJSON, showSuccesses, eval, item, call, ret, trail, before, ncalls,
    tasks>>

(***************************************************************************)
(* Bounds of the model.                                                    *)
(***************************************************************************)
\* Number of validation calls made on the Validator in one behaviour.
MaxCalls == 2

\* Largest integer held by a field of the generated inputs.
MaxInt == 7

(***************************************************************************)
(* Texts.                                                                  *)
(***************************************************************************)
Digits == <<"0", "1", "2", "3", "4", "5", "6", "7", "8", "9">>

\* The characters of the model in ASCII order (string comparison in the
\* expression engine compares code units).
Alphabet ==
  <<" ", "!", "$", ",", "-", "0", "1", "2", "3", "4", "5", "6", "7", "8",
    "9", "<", "=", ">", "A", "B", "C", "D", "Z", "[", "^", "a", "b", "c",
    "e", "f", "h", "i", "l", "m", "o", "p", "r", "s", "t", "u", "y">>

CharCode(c) == CHOOSE i \in 1..Len(Alphabet) : Alphabet[i] = c

IsDigit(c) == \E i \in 1..Len(Digits) : Digits[i] = c

DigitVal(c) == (CHOOSE i \in 1..Len(Digits) : Digits[i] = c) - 1

IsUpper(c) == c \in {"A", "B", "C", "D", "Z"}

IsLetter(c) ==
  c \in {"A", "B", "C", "D", "Z", "a", "b", "c", "e", "f", "h", "i", "l",
         "m", "o", "p", "r", "s", "t", "u", "y"}

IsSpace(c) == c = " "

RECURSIVE TrimLeft(_)
TrimLeft(s) ==
  IF s # <<>> /\ IsSpace(Head(s)) THEN TrimLeft(Tail(s)) ELSE s

RECURSIVE TrimRight(_)
TrimRight(s) ==
  IF s # <<>> /\ IsSpace(s[Len(s)])
  THEN TrimRight(SubSeq(s, 1, Len(s) - 1))
  ELSE s

TrimSpace(s) == TrimRight(TrimLeft(s))

HasSuffix(s, suffix) ==
  /\ Len(s) >= Len(suffix)
  /\ SubSeq(s, Len(s) - Len(suffix) + 1, Len(s)) = suffix

HasPrefix(s, prefix) ==
  /\ Len(s) >= Len(prefix)
  /\ SubSeq(s, 1, Len(prefix)) = prefix

RECURSIVE FormatUint(_)
FormatUint(n) ==
  IF n < 10 THEN <<Digits[n + 1]>>
  ELSE FormatUint(n \div 10) \o <<Digits[(n % 10) + 1]>>

FormatInt(n) == IF n < 0 THEN <<"-">> \o FormatUint(0 - n) ELSE FormatUint(n)

OmitEmptySuffix == <<",", "o", "m", "i", "t", "e", "m", "p", "t", "y">>


(***************************************************************************)
(* The expression engine (otto): values, tokens, parser, interpreter.      *)
(***************************************************************************)
JSNum(n) == [t |-> "num", n |-> n]
JSNaN == [t |-> "nan"]
JSBool(b) == [t |-> "bool", b |-> b]
JSStr(s) == [t |-> "str", s |-> s]
JSObj(cls, id) == [t |-> "obj", cls |-> cls, id |-> id]
\* a Date object: its time value is what it converts to as a number
JSDate(id, ms) == [t |-> "obj", cls |-> "Date", id |-> id, ms |-> ms]
JSUndefined == [t |-> "undef"]

RECURSIVE IdentLen(_)
IdentLen(s) ==
  IF s # <<>> /\ (IsLetter(Head(s)) \/ IsDigit(Head(s)))
  THEN 1 + IdentLen(Tail(s))
  ELSE 0

RECURSIVE NumLen(_)
NumLen(s) == IF s # <<>> /\ IsDigit(Head(s)) THEN 1 + NumLen(Tail(s)) ELSE 0

RECURSIVE ParseUint(_)
ParseUint(s) ==
  IF s = <<>> THEN 0
  ELSE ParseUint(SubSeq(s, 1, Len(s) - 1)) * 10 + DigitVal(s[Len(s)])

AllDigits(s) == s # <<>> /\ \A i \in 1..Len(s) : IsDigit(s[i])

TwoCharOps == {<<"<", "=">>, <<">", "=">>, <<"=", "=">>, <<"!", "=">>}
OneCharOps == {"<", ">", "=", "!"}

Drop(s, n) == SubSeq(s, n + 1, Len(s))

RECURSIVE Tokens(_)
Tokens(s) ==
  IF s = <<>> THEN <<>>
  ELSE LET c == Head(s) IN
    IF IsSpace(c) THEN Tokens(Tail(s))
    ELSE IF IsLetter(c)
      THEN LET n == IdentLen(s)
           IN <<[t |-> "id", s |-> SubSeq(s, 1, n)]>> \o Tokens(Drop(s, n))
    ELSE IF IsDigit(c)
      THEN LET n == NumLen(s)
           IN <<[t |-> "num", s |-> SubSeq(s, 1, n)]>> \o Tokens(Drop(s, n))
    ELSE IF Len(s) >= 2 /\ SubSeq(s, 1, 2) \in TwoCharOps
      THEN <<[t |-> "op", s |-> SubSeq(s, 1, 2)]>> \o Tokens(Drop(s, 2))
    ELSE IF c \in OneCharOps
      THEN <<[t |-> "op", s |-> <<c>>]>> \o Tokens(Tail(s))
    ELSE <<[t |-> "bad", s |-> <<c>>]>> \o Tokens(Tail(s))

NoParse == [ok |-> FALSE, ast |-> [k |-> "none"], next |-> 0]

IsOp(toks, i, ops) ==
  i <= Len(toks) /\ toks[i].t = "op" /\ toks[i].s \in ops

RelOps == {<<"<">>, <<">">>, <<"<", "=">>, <<">", "=">>}
EqOps == {<<"=", "=">>, <<"!", "=">>}

RECURSIVE ParseUnary(_, _)
ParseUnary(toks, i) ==
  IF i > Len(toks) THEN NoParse
  ELSE IF toks[i].t = "num"
    THEN [ok |-> TRUE, ast |-> [k |-> "num", n |-> ParseUint(toks[i].s)],
          next |-> i + 1]
  ELSE IF toks[i].t = "id"
    THEN [ok |-> TRUE, ast |-> [k |-> "id", name |-> toks[i].s],
          next |-> i + 1]
  ELSE IF IsOp(toks, i, {<<"!">>})
    THEN LET r == ParseUnary(toks, i + 1)
         IN IF r.ok
            THEN [ok |-> TRUE, ast |-> [k |-> "not", a |-> r.ast],
                  next |-> r.next]
            ELSE NoParse
  ELSE NoParse

\* left-associative chain  left op operand op operand ...
RECURSIVE ParseRelTail(_, _, _)
ParseRelTail(toks, left, i) ==
  IF IsOp(toks, i, RelOps)
  THEN LET Then(r) ==
             IF r.ok
             THEN ParseRelTail(toks,
                    [k |-> "bin", op |-> toks[i].s, a |-> left, b |-> r.ast],
                    r.next)
             ELSE NoParse
       IN Then(ParseUnary(toks, i + 1))
  ELSE [ok |-> TRUE, ast |-> left, next |-> i]

ParseRel(toks, i) ==
  LET Then(r) == IF r.ok THEN ParseRelTail(toks, r.ast, r.next) ELSE NoParse
  IN Then(ParseUnary(toks, i))

RECURSIVE ParseEqTail(_, _, _)
ParseEqTail(toks, left, i) ==
  IF IsOp(toks, i, EqOps)
  THEN LET Then(r) ==
             IF r.ok
             THEN ParseEqTail(toks,
                    [k |-> "bin", op |-> toks[i].s, a |-> left, b |-> r.ast],
                    r.next)
             ELSE NoParse
       IN Then(ParseRel(toks, i + 1))
  ELSE [ok |-> TRUE, ast |-> left, next |-> i]

ParseEquality(toks, i) ==
  LET Then(r) == IF r.ok THEN ParseEqTail(toks, r.ast, r.next) ELSE NoParse
  IN Then(ParseRel(toks, i))

RECURSIVE ParseAssign(_, _)
ParseAssign(toks, i) ==
  IF i <= Len(toks) /\ toks[i].t = "id" /\ IsOp(toks, i + 1, {<<"=">>})
  THEN LET r == ParseAssign(toks, i + 2)
       IN IF r.ok
          THEN [ok |-> TRUE,
                ast |-> [k |-> "asg", name |-> toks[i].s, a |-> r.ast],
                next |-> r.next]
          ELSE NoParse
  ELSE ParseEquality(toks, i)

\* vm.Compile("", expr): the script, or a syntax error.
Compile(text) ==
  LET Parsed(toks, r) ==
        IF r.ok /\ r.next = Len(toks) + 1
        THEN [ok |-> TRUE, script |-> r.ast]
        ELSE [ok |-> FALSE, script |-> [k |-> "none"]]
      Program(toks) ==
        IF \E i \in 1..Len(toks) : toks[i].t = "bad"
          THEN [ok |-> FALSE, script |-> [k |-> "none"]]
        ELSE IF toks = <<>>
          THEN [ok |-> TRUE, script |-> [k |-> "empty"]]
        ELSE Parsed(toks, ParseAssign(toks, 1))
  IN Program(Tokens(text))

ToNumber(v) ==
  LET Numeric(ts) ==
        IF ts = <<>> THEN JSNum(0)
        ELSE IF AllDigits(ts) THEN JSNum(ParseUint(ts))
        ELSE JSNaN
  IN CASE v.t = "num" -> v
       [] v.t = "bool" -> JSNum(IF v.b THEN 1 ELSE 0)
       [] v.t = "str" -> Numeric(TrimSpace(v.s))
       [] v.t = "obj" /\ v.cls = "Date" -> JSNum(v.ms)
       [] OTHER -> JSNaN

ToBoolean(v) ==
  CASE v.t = "num" -> v.n # 0
    [] v.t = "bool" -> v.b
    [] v.t = "str" -> v.s # <<>>
    [] v.t = "obj" -> TRUE
    [] OTHER -> FALSE

RECURSIVE StrLess(_, _)
StrLess(a, b) ==
  IF b = <<>> THEN FALSE
  ELSE IF a = <<>> THEN TRUE
  ELSE IF Head(a) = Head(b) THEN StrLess(Tail(a), Tail(b))
  ELSE CharCode(Head(a)) < CharCode(Head(b))

\* a < b of ECMAScript 5, 11.8.5; a Date converts to its time value, the
\* other objects of this subset to NaN.
JSLess(a, b) ==
  LET Numbers(x, y) == x.t = "num" /\ y.t = "num" /\ x.n < y.n
  IN IF a.t = "str" /\ b.t = "str" THEN StrLess(a.s, b.s)
     ELSE Numbers(ToNumber(a), ToNumber(b))

JSLessEq(a, b) ==
  LET Numbers(x, y) == x.t = "num" /\ y.t = "num" /\ x.n <= y.n
  IN IF a.t = "str" /\ b.t = "str" THEN ~StrLess(b.s, a.s)
     ELSE Numbers(ToNumber(a), ToNumber(b))

\* a == b of ECMAScript 5, 11.9.3.
JSEquals(a, b) ==
  LET Numbers(x, y) == x.t = "num" /\ y.t = "num" /\ x.n = y.n
  IN IF a.t = b.t
     THEN CASE a.t = "num" -> a.n = b.n
            [] a.t = "nan" -> FALSE
            [] a.t = "bool" -> a.b = b.b
            [] a.t = "str" -> a.s = b.s
            [] a.t = "obj" -> a.id = b.id
            [] OTHER -> TRUE
     ELSE IF a.t \in {"obj", "undef"} \/ b.t \in {"obj", "undef"} THEN FALSE
     ELSE Numbers(ToNumber(a), ToNumber(b))

\* a > b is b < a and a >= b is b <= a; a != b negates a == b.
BinOp(op, a, b) ==
  LET swapped == op \in {<<">">>, <<">", "=">>}
      x == IF swapped THEN b ELSE a
      y == IF swapped THEN a ELSE b
  IN IF op \in EqOps THEN (op = <<"=", "=">>) = JSEquals(a, b)
     ELSE IF Len(op) = 1 THEN JSLess(x, y)
     ELSE JSLessEq(x, y)

\* vm.Run(script): the completion value and the global scope afterwards, or
\* an execution error (a ReferenceError for a name that is not bound).
RECURSIVE Run(_, _)
Run(ast, vm) ==
  CASE ast.k = "num" -> [err |-> FALSE, v |-> JSNum(ast.n), vm |-> vm]
    [] ast.k = "empty" -> [err |-> FALSE, v |-> JSUndefined, vm |-> vm]
    [] ast.k = "id" ->
         IF ast.name \in DOMAIN vm
         THEN [err |-> FALSE, v |-> vm[ast.name], vm |-> vm]
         ELSE [err |-> TRUE, v |-> JSUndefined, vm |-> vm]
    [] ast.k = "not" ->
         LET r == Run(ast.a, vm)
         IN IF r.err THEN r
            ELSE [err |-> FALSE, v |-> JSBool(~ToBoolean(r.v)), vm |-> r.vm]
    [] ast.k = "bin" ->
         LET ra == Run(ast.a, vm)
         IN IF ra.err THEN ra
            ELSE LET rb == Run(ast.b, ra.vm)
                 IN IF rb.err THEN rb
                    ELSE [err |-> FALSE,
                          v |-> JSBool(BinOp(ast.op, ra.v, rb.v)),
                          vm |-> rb.vm]
    [] ast.k = "asg" ->
         LET r == Run(ast.a, vm)
         IN IF r.err THEN r
            ELSE [err |-> FALSE, v |-> r.v,
                  vm |-> [n \in DOMAIN r.vm \cup {ast.name} |->
                            IF n = ast.name THEN r.v ELSE r.vm[n]]]
(***************************************************************************)
(* The pattern engine (package regexp).                                    *)
(***************************************************************************)
\* regexp.Compile(pattern) succeeds: every '[' opens a class that is closed.
RECURSIVE ClassesClosed(_)
ClassesClosed(p) ==
  IF p = <<>> THEN TRUE
  ELSE IF Head(p) = "["
    THEN /\ \E j \in 2..Len(p) : p[j] = "]"
         /\ ClassesClosed(Drop(p, CHOOSE j \in 2..Len(p) : p[j] = "]"))
  ELSE ClassesClosed(Tail(p))

PatternCompiles(p) == ClassesClosed(p)

\* The compiled pattern: its literal and its two anchors.
CompilePattern(p) ==
  LET atStart == p # <<>> /\ Head(p) = "^"
      p1 == IF atStart THEN Tail(p) ELSE p
      atEnd == p1 # <<>> /\ p1[Len(p1)] = "$"
      lit == IF atEnd THEN SubSeq(p1, 1, Len(p1) - 1) ELSE p1
  IN [atStart |-> atStart, atEnd |-> atEnd, lit |-> lit]

\* rexp.Match: the literal occurs in str, at the positions the anchors allow.
Match(rexp, str) ==
  \E i \in 1..(Len(str) - Len(rexp.lit) + 1) :
    /\ SubSeq(str, i, i + Len(rexp.lit) - 1) = rexp.lit
    /\ rexp.atStart => i = 1
    /\ rexp.atEnd => i + Len(rexp.lit) - 1 = Len(str)

(***************************************************************************)
(* Go values as reflection sees them.                                      *)
(***************************************************************************)
VInt(kind, n) == [kind |-> kind, n |-> n]
VString(s) == [kind |-> "string", s |-> s]
VBool(b) == [kind |-> "bool", b |-> b]
VPtr(elem) == [kind |-> "ptr", isnil |-> FALSE, elem |-> elem]
VNilPtr == [kind |-> "ptr", isnil |-> TRUE]
VIface(elem) == [kind |-> "interface", isnil |-> FALSE, elem |-> elem]
VNilIface == [kind |-> "interface", isnil |-> TRUE]
VSlice(elems) == [kind |-> "slice", isnil |-> FALSE, elems |-> elems]
VNilSlice == [kind |-> "slice", isnil |-> TRUE, elems |-> <<>>]
VArray(elems) == [kind |-> "array", elems |-> elems]
VMap(keys, vals) == [kind |-> "map", keys |-> keys, vals |-> vals]
VStruct(fields) == [kind |-> "struct", fields |-> fields]
VTime(ms) == [kind |-> "time", ms |-> ms]
\* the zero reflect.Value: reflect.ValueOf(nil), Elem() of a nil pointer
VInvalid == [kind |-> "invalid"]

\* A struct field: reflect.StructField (name, tag) and the value it holds.
Field(name, json, expr, regexp, val) ==
  [name |-> name, json |-> json, expr |-> expr, regexp |-> regexp,
   val |-> val]

IntKinds == {"int", "int8", "int16", "int32", "int64"}
UintKinds == {"uint", "uint8", "uint16", "uint32", "uint64"}

\* reflect.Type.Kind(): time.Time is a struct type.
Kind(val) == IF val.kind = "time" THEN "struct" ELSE val.kind

\* reflect.Value.IsValid / IsNil after Elem().
Elem(val) == IF val.isnil THEN VInvalid ELSE val.elem

\* reflect.DeepEqual(v, reflect.Zero(reflect.TypeOf(v)).Interface())
RECURSIVE IsZeroValue(_)
IsZeroValue(val) ==
  CASE val.kind \in IntKinds \cup UintKinds -> val.n = 0
    [] val.kind = "string" -> val.s = <<>>
    [] val.kind = "bool" -> ~val.b
    [] val.kind \in {"ptr", "interface", "slice"} -> val.isnil
    [] val.kind = "map" -> FALSE
    [] val.kind = "array" ->
         \A i \in 1..Len(val.elems) : IsZeroValue(val.elems[i])
    [] val.kind = "struct" ->
         \A i \in 1..Len(val.fields) : IsZeroValue(val.fields[i].val)
    [] val.kind = "time" -> val.ms = 0
    [] OTHER -> FALSE

\* The flags of a reflect.Value: flagRO (reached through a non-exported
\* field) and flagAddr (addressable).
Flags(ro, addr) == [ro |-> ro, addr |-> addr]

\* Value.Elem, Value.Index, Value.MapIndex and Value.Field hand the RO
\* flag down; addressability comes from a pointer or a slice.
ElemFlags(val, fl) == Flags(fl.ro, val.kind = "ptr")
IndexFlags(val, fl) == Flags(fl.ro, val.kind = "slice" \/ fl.addr)
MapFlags_Addressable(fl) == Flags(fl.ro, TRUE)
MapFlags(fl) == Flags(fl.ro, FALSE)
FieldFlags(f, fl) == Flags(fl.ro \/ ~IsUpper(Head(f.name)), fl.addr)
(***************************************************************************)
(* evaluator: the runtime's global scope, the two caches, the type         *)
(* mappers.                                                                *)
(***************************************************************************)
\* reflect.TypeOf(val), as far as the mapper registry tells types apart.
TypeOf(val) == IF val.kind = "time" THEN "time.Time" ELSE val.kind

NewDate == <<"n", "e", "w", " ", "D", "a", "t", "e", "(">>

\* TimeMapper: the JavaScript fragment for a time.Time.
TimeMapper(val) == NewDate \o FormatInt(val.ms) \o <<")">>

\* Mappers a caller registers for int: one reads the integer as the
\* milliseconds of a Date, the other renders a fragment that does not parse.
DateOfInt(val) == NewDate \o FormatInt(val.n) \o <<")">>
Unclosed(val) == NewDate \o FormatInt(val.n)

\* e.vm.Object(src): the object the fragment evaluates to, or an error.
Object(src, id) ==
  LET arg == SubSeq(src, Len(NewDate) + 1, Len(src) - 1)
  IN IF /\ HasPrefix(src, NewDate)
        /\ HasSuffix(src, <<")">>)
        /\ AllDigits(IF arg # <<>> /\ Head(arg) = "-" THEN Tail(arg) ELSE arg)
     THEN [err |-> FALSE,
           obj |-> JSDate(id, IF Head(arg) = "-" THEN 0 - ParseUint(Tail(arg))
                              ELSE ParseUint(arg))]
     ELSE [err |-> TRUE, obj |-> JSUndefined]

\* The runtime's conversion of a Go value handed to vm.Set.
ToValue(val, id) ==
  CASE val.kind \in IntKinds \cup UintKinds -> JSNum(val.n)
    [] val.kind = "bool" -> JSBool(val.b)
    [] val.kind = "string" -> JSStr(val.s)
    [] val.kind = "invalid" -> JSUndefined
    [] OTHER -> JSObj("go", id)

\* A binding that does not replace the one the name has already.
Set_KeepsBound(vm, name, v) ==
  [n \in DOMAIN vm \cup {name} |-> IF n \in DOMAIN vm THEN vm[n] ELSE v]

\* e.vm.Set(name, val)
Set(vm, name, v) ==
  [n \in DOMAIN vm \cup {name} |-> IF n = name THEN v ELSE vm[n]]

\* compiles is the record of the calls of vm.Compile this evaluator made,
\* in order: the text and whether it compiled.
newEvaluator ==
  [vm |-> <<>>, regexps |-> <<>>, mapping |-> <<>>, scripts |-> <<>>,
   compiles |-> <<>>]

addTypeMapping(e, t, f) ==
  [e EXCEPT !.mapping =
     [x \in DOMAIN e.mapping \cup {t} |-> IF x = t THEN f ELSE e.mapping[x]]]

\* e.copy(): an evaluator of its own, with a new runtime and new, empty
\* caches, and the type mappers registered with e.
copy(e) == [newEvaluator EXCEPT !.mapping = e.mapping]

\* The fragment a registered mapper renders for val.
Render(mapper, val) ==
  CASE mapper = "TimeMapper" -> TimeMapper(val)
    [] mapper = "DateOfInt" -> DateOfInt(val)
    [] mapper = "Unclosed" -> Unclosed(val)
    [] OTHER -> <<>>

\* The variable bound to the value as it is, whatever is registered.
Materialized_Raw(e, name, val) == [err |-> FALSE, obj |-> ToValue(val, name)]

\* f, ok := e.mapping[reflect.TypeOf(val)]; if ok { val, err = f(val) }
Materialized(e, name, val) ==
  IF TypeOf(val) \in DOMAIN e.mapping
  THEN Object(Render(e.mapping[TypeOf(val)], val), name)
  ELSE [err |-> FALSE, obj |-> ToValue(val, name)]

\* The script cache never consulted: every call compiles.
Memoized_Never(e, expr) == FALSE

\* script := e.scripts[expr]; script != nil
Memoized(e, expr) == expr \in DOMAIN e.scripts

\* A cached script that has lost its statements.
Cached_Blank(e, expr) == [k |-> "empty"]

\* script := e.scripts[expr]
Cached(e, expr) == e.scripts[expr]

\* The first statements of evalBoolExpr, up to e.vm.Set(name, val): the
\* value is mapped and bound in the global scope.  [eval, err]
bindValue(e, name, val) ==
  LET \* val, err = f(val); e.vm.Set(name, val)
      Mapped(obj) ==
        IF obj.err THEN [eval |-> e, err |-> TRUE]
        ELSE [eval |-> [e EXCEPT !.vm = Set(e.vm, name, obj.obj)],
              err |-> FALSE]
  IN Mapped(Materialized(e, name, val))

\* The statements of evalBoolExpr after the binding: the script is taken
\* from the cache or compiled, and run.  [eval, bv, err]
runScript(e, expr) ==
  LET \* res, err := e.vm.Run(script); res.ToBoolean()
      Ran(e2, run) ==
        IF run.err
        THEN [eval |-> [e2 EXCEPT !.vm = run.vm], bv |-> FALSE,
              err |-> "execute"]
        ELSE [eval |-> [e2 EXCEPT !.vm = run.vm], bv |-> ToBoolean(run.v),
              err |-> ""]
      \* script := e.scripts[expr], compiled and stored when it is not there
      Compiled(e1, comp) ==
        IF ~comp.ok THEN [eval |-> e1, bv |-> FALSE, err |-> "compile"]
        ELSE Ran([e1 EXCEPT !.scripts =
                    [x \in DOMAIN e.scripts \cup {expr} |->
                       IF x = expr THEN comp.script ELSE e.scripts[x]]],
                 Run(comp.script, e1.vm))
      \* script, err = e.vm.Compile("", expr)
      Called(e1, comp) ==
        Compiled([e1 EXCEPT !.compiles =
                    Append(@, [text |-> expr, ok |-> comp.ok])],
                 comp)
  IN IF Memoized(e, expr)
     THEN Compiled(e, [ok |-> TRUE, script |-> Cached(e, expr)])
     ELSE Called(e, Compile(expr))

\* evalBoolExpr: [eval: the evaluator afterwards, bv, err: "" or the error]
evalBoolExpr(e, name, val, expr) ==
  LET Bound(b) ==
        IF b.err THEN [eval |-> e, bv |-> FALSE, err |-> "mapping"]
        ELSE runScript(b.eval, expr)
  IN Bound(bindValue(e, name, val))

\* evalRegexp: regexp.MustCompile panics on a pattern that does not
\* compile; the function has no path that returns an error.
evalRegexp(e, val, pattern) ==
  LET hit == pattern \in DOMAIN e.regexps
      Stored(rexp) ==
        [eval |-> [e EXCEPT !.regexps =
                     [x \in DOMAIN e.regexps \cup {pattern} |->
                        IF x = pattern THEN rexp ELSE e.regexps[x]]],
         bv |-> Match(rexp, val), panic |-> FALSE]
  IN IF hit
       THEN [eval |-> e, bv |-> Match(e.regexps[pattern], val),
             panic |-> FALSE]
     ELSE IF ~PatternCompiles(pattern)
       THEN [eval |-> e, bv |-> FALSE, panic |-> TRUE]
     ELSE Stored(CompilePattern(pattern))
(***************************************************************************)
(* Validator.processTag                                                    *)
(***************************************************************************)
\* exprTag == "" && regexpTag == ""
\* f.Tag.Get("expr"), f.Tag.Get("regexp"), f.Tag.Lookup("json")
exprTagOf(f) == f.expr

regexpTag_JSONKey(f) == f.json

regexpTagOf(f) == f.regexp

jtagOf(f) == f.json

NoTags(f) == exprTagOf(f) = <<>> /\ regexpTagOf(f) = <<>>

\* jtag == "-" alone, whatever the mode.
JSONSkip_AnyMode(json, jtag) == jtag = <<"-">>

\* v.asJSON && jtag == "-"
JSONSkip(json, jtag) == json /\ jtag = <<"-">>

\* The loop that strips pointers and interfaces off a private value.
RECURSIVE DerefAll(_, _)
DerefAll(val, fl) ==
  IF val.kind = "invalid" \/ val.isnil THEN [nil |-> TRUE]
  ELSE IF val.elem.kind \in {"interface", "ptr"}
    THEN DerefAll(val.elem, ElemFlags(val, fl))
  ELSE [nil |-> FALSE, val |-> val.elem, fl |-> ElemFlags(val, fl)]

\* !val.CanAddr() alone: the mode of the call is not asked.
AccessDenied_AddrOnly(safe, fl) == ~fl.addr

\* safe || !val.CanAddr()
AccessDenied(safe, fl) == safe \/ ~fl.addr

\* The private builtin kinds read through their reflect accessors.
PrivateBuiltin(val) ==
  CASE val.kind = "string" -> [ok |-> TRUE, iface |-> val]
    [] val.kind \in {"int", "int16", "int32", "int64"} ->
         [ok |-> TRUE, iface |-> VInt("int64", val.n)]
    [] val.kind \in {"uint", "uint16", "uint32", "uint64"} ->
         [ok |-> TRUE, iface |-> VInt("uint64", val.n)]
    [] val.kind = "bool" -> [ok |-> TRUE, iface |-> val]
    [] OTHER -> [ok |-> FALSE]

\* val.Interface(): the value an interface{} holds is the concrete one.
Interface(val) == IF val.kind = "interface" THEN Elem(val) ELSE val

\* The resolution without the test `!val.IsValid()` after the unwrapping.
Resolve_NoValidTest(val0, fl0, safe) ==
  LET wrapped == val0.kind \in {"ptr", "interface"}
      val == IF wrapped THEN Elem(val0) ELSE val0
      fl == IF wrapped THEN ElemFlags(val0, fl0) ELSE fl0
  IN IF ~fl.ro THEN [st |-> "ok", iface |-> Interface(val)]
     ELSE IF PrivateBuiltin(val).ok
       THEN [st |-> "ok", iface |-> PrivateBuiltin(val).iface]
     ELSE IF AccessDenied(safe, fl) THEN [st |-> "err"]
     ELSE [st |-> "ok", iface |-> val]

\* The concrete value of the field:
\*   [st |-> "skip"], [st |-> "err"] or [st |-> "ok", iface |-> value].
Resolve(val0, fl0, safe) ==
  LET wrapped == val0.kind \in {"ptr", "interface"}
      val == IF wrapped THEN Elem(val0) ELSE val0
      fl == IF wrapped THEN ElemFlags(val0, fl0) ELSE fl0
      prim == PrivateBuiltin(val)
      inner == DerefAll(val, fl)
  IN IF val.kind = "invalid" THEN [st |-> "skip"]
     ELSE IF ~fl.ro THEN [st |-> "ok", iface |-> Interface(val)]
     ELSE IF prim.ok THEN [st |-> "ok", iface |-> prim.iface]
     ELSE IF val.kind \in {"interface", "ptr"}
       THEN IF inner.nil THEN [st |-> "skip"]
            ELSE IF AccessDenied(safe, inner.fl) THEN [st |-> "err"]
            ELSE [st |-> "ok", iface |-> inner.val]
     ELSE IF AccessDenied(safe, fl) THEN [st |-> "err"]
     ELSE [st |-> "ok", iface |-> val]

\* The zero-value check without the test of the field's kind.
SkipZero_AnyKind(json, f, iface) ==
  /\ json
  /\ HasSuffix(jtagOf(f), OmitEmptySuffix)
  /\ IsZeroValue(iface)

\* The zero-value check under JSON rules.
SkipZero(json, f, iface) ==
  /\ json
  /\ Kind(f.val) # "struct"
  /\ HasSuffix(jtagOf(f), OmitEmptySuffix)
  /\ IsZeroValue(iface)

\* The switch on ts[0] that decides the shorthand rewrite (ts is not empty).
IsShorthand(ts) ==
  CASE ts[1] = "!" -> ~(Len(ts) < 2 \/ ts[2] # "=")
    [] ts[1] \in {"<", ">", "="} -> TRUE
    [] OTHER -> FALSE

\* The buffer without the field name written to it.
Rewritten_NoName(name, exprTag) == <<" ">> \o exprTag

\* buffer: f.Name, " ", exprTag
Rewritten(name, exprTag) == name \o <<" ">> \o exprTag

\* bv || v.showSuccesses: the negation lost.
Reported_Passing(bv, show) == bv \/ show

\* !bv || v.showSuccesses
Reported(bv, show) == ~bv \/ show

RECURSIVE Join(_)
Join(parts) ==
  IF parts = <<>> THEN <<>>
  ELSE IF Len(parts) = 1 THEN parts[1]
  ELSE parts[1] \o <<" ">> \o Join(Tail(parts))

\* fmt.Sprint(val) for the kinds of the model.
RECURSIVE Sprint(_)
Sprint(val) ==
  CASE val.kind \in IntKinds \cup UintKinds -> FormatInt(val.n)
    [] val.kind = "string" -> val.s
    [] val.kind = "bool" ->
         IF val.b THEN <<"t", "r", "u", "e">> ELSE <<"f", "a", "l", "s", "e">>
    [] val.kind \in {"slice", "array"} ->
         <<"[">> \o Join([i \in 1..Len(val.elems) |-> Sprint(val.elems[i])])
                 \o <<"]">>
    [] val.kind = "struct" ->
         <<"{">> \o Join([i \in 1..Len(val.fields) |->
                            Sprint(val.fields[i].val)]) \o <<"}">>
    [] val.kind \in {"ptr", "interface"} ->
         IF val.isnil THEN <<"<", "n", "i", "l", ">">> ELSE <<"0", "x", "c">>
    [] OTHER -> <<"?">>

\* Validator.iToStr
iToStr(i) ==
  CASE i.kind = "string" -> i.s
    [] i.kind = "bool" ->
         IF i.b THEN <<"t", "r", "u", "e">> ELSE <<"f", "a", "l", "s", "e">>
    [] i.kind \in IntKinds -> FormatInt(i.n)
    [] i.kind \in UintKinds -> FormatUint(i.n)
    [] OTHER -> Sprint(i)

\* A Result; path and rule locate the (field, rule) pair in the value graph.
Result(f, iface, expr, bv, path, rule) ==
  [Name |-> f.name, Value |-> iface, Type |-> TypeOf(f.val), Expr |-> expr,
   Valid |-> bv, path |-> path, rule |-> rule]

\* The record of a step of the call: the function entered, the position it
\* works on, the rule text handed to a backend and what the backend said
\* ("true", "false", "error", "panic"; "" for the steps that are no backend
\* call).
Logged(ctx, fn, path, text, out) ==
  [ctx EXCEPT !.log =
     Append(@, [fn |-> fn, path |-> path, text |-> text, out |-> out])]

Said(bv) == IF bv THEN "true" ELSE "false"

Failed(ctx, kind, path) ==
  [ctx EXCEPT !.st = "err", !.err = kind, !.at = path]

Panicked(ctx, path) == [ctx EXCEPT !.st = "panic", !.at = path]

\* The text of the expression rule of a field as it is handed to the
\* evaluator: rewritten when it begins with a relational operator.
ScriptText(f) ==
  LET Of(ts) ==
        IF ts # <<>> /\ IsShorthand(ts) THEN Rewritten(f.name, exprTagOf(f))
        ELSE exprTagOf(f)
  IN Of(TrimSpace(exprTagOf(f)))

\* What follows bv, err = v.eval.evalBoolExpr(f.Name, iface, expr): the
\* error returned, or the Result appended.
exprResult(f, iface, path, env, ctx, expr, out) ==
  LET Then(c1) ==
        IF out.err # "" THEN Failed(c1, out.err, path)
        ELSE IF Reported(out.bv, env.showSuccesses)
          THEN [c1 EXCEPT !.res =
                  Append(@, Result(f, iface, expr, out.bv, path, "expr"))]
        ELSE c1
  IN Then([Logged(ctx, "evalBoolExpr", path, expr,
                  IF out.err # "" THEN "error" ELSE Said(out.bv))
             EXCEPT !.eval = out.eval])

\* if exprTag != "" { ... }
exprRule(f, iface, path, env, ctx) ==
  LET exprTag == exprTagOf(f)
      Rule(expr) ==
        exprResult(f, iface, path, env, ctx, expr,
                   evalBoolExpr(ctx.eval, f.name, iface, expr))
      \* ts := strings.TrimSpace(expr); switch ts[0]
      Trimmed(ts) ==
        IF ts = <<>> THEN Panicked(ctx, path)
        ELSE Rule(IF IsShorthand(ts) THEN Rewritten(f.name, exprTag)
                  ELSE exprTag)
  IN Trimmed(TrimSpace(exprTag))

\* if regexpTag != "" { ... }
regexpRule(f, iface, path, env, ctx) ==
  LET regexpTag == regexpTagOf(f)
      \* bv, err = v.eval.evalRegexp(str, regexpTag) and what follows
      Matched(out) ==
        LET c1 == [Logged(ctx, "evalRegexp", path, regexpTag,
                          IF out.panic THEN "panic" ELSE Said(out.bv))
                     EXCEPT !.eval = out.eval]
        IN IF out.panic THEN Panicked(c1, path)
           ELSE IF Reported(out.bv, env.showSuccesses)
             THEN [c1 EXCEPT !.res =
                     Append(@, Result(f, iface, regexpTag, out.bv, path,
                                      "regexp"))]
           ELSE c1
  IN Matched(evalRegexp(ctx.eval, iToStr(iface), regexpTag))

\* The two blocks in the other order: the pattern rule first.
Rules_PatternFirst(f, iface, path, env, ctx) ==
  LET Then(c1) ==
        IF c1.st # "ok" \/ exprTagOf(f) = <<>> THEN c1
        ELSE exprRule(f, iface, path, env, c1)
  IN Then(IF regexpTagOf(f) # <<>> THEN regexpRule(f, iface, path, env, ctx)
          ELSE ctx)

\* The two rules of one field, in the order the function runs them.
Rules(f, iface, path, env, ctx) ==
  LET Then(c1) ==
        IF c1.st # "ok" \/ regexpTagOf(f) = <<>> THEN c1
        ELSE regexpRule(f, iface, path, env, c1)
  IN Then(IF exprTagOf(f) # <<>> THEN exprRule(f, iface, path, env, ctx)
          ELSE ctx)

processTag(f, val, fl, path, env, ctx) ==
  LET c0 == Logged(ctx, "processTag", path, <<>>, "")
      \* the concrete value, the zero check, the rules
      With(r) ==
        IF r.st = "skip" THEN c0
        ELSE IF r.st = "err" THEN Failed(c0, "access", path)
        ELSE IF SkipZero(env.asJSON, f, r.iface) THEN c0
        ELSE Rules(f, r.iface, path, env, c0)
  IN IF NoTags(f) THEN c0
     ELSE IF JSONSkip(env.asJSON, jtagOf(f)) THEN c0
     ELSE With(Resolve(val, fl, env.safe))
(***************************************************************************)
(* Validator.traverse                                                      *)
(***************************************************************************)
\* handleTag left true for every field.
HandleTag_Always(json, f) == TRUE

\* handleTag: under JSON rules a field whose name does not start with an
\* upper-case letter is not tag-processed.
HandleTag(json, f) == ~(json /\ ~IsUpper(Head(f.name)))

Step(path, kind, i) == Append(path, <<kind, i>>)

\* val.MapKeys(): the order is the runtime's; with two entries at most the
\* stored order and its reverse are all the orders there are.
MapKeys(val, swap) ==
  IF swap THEN [i \in 1..Len(val.keys) |-> Len(val.keys) + 1 - i]
  ELSE [i \in 1..Len(val.keys) |-> i]

RECURSIVE traverse(_, _, _, _, _)
RECURSIVE traverseElems(_, _, _, _, _, _)
RECURSIVE traverseEntries(_, _, _, _, _, _)
RECURSIVE traverseFields(_, _, _, _, _, _)

\* for i := 0; i < val.Len(); i++ { traverse(val.Index(i)) }
traverseElems(val, fl, path, env, ctx, i) ==
  IF ctx.st # "ok" \/ i > Len(val.elems) THEN ctx
  ELSE traverseElems(val, fl, path, env,
         traverse(val.elems[i], IndexFlags(val, fl), Step(path, "index", i),
                  env, ctx),
         i + 1)

\* for _, key := range keys { traverse(key); traverse(val.MapIndex(key)) }
traverseEntries(val, fl, path, env, ctx, i) ==
  IF ctx.st # "ok" \/ i > Len(val.keys) THEN ctx
  ELSE LET k == MapKeys(val, env.swap)[i]
           Value(c1) ==
             IF c1.st # "ok" THEN c1
             ELSE traverse(val.vals[k], MapFlags(fl),
                           Step(path, "value", k), env, c1)
       IN traverseEntries(val, fl, path, env,
            Value(traverse(val.keys[k], MapFlags(fl), Step(path, "key", k),
                           env, ctx)),
            i + 1)

\* The loop with the visibility rule applied only when private fields cannot
\* be read (v.asJSON && safe).
traverseFields_SafeOnly(val, fl, path, env, ctx, i) ==
  IF ctx.st # "ok" \/ i > Len(val.fields) THEN ctx
  ELSE LET f == val.fields[i]
           p == Step(path, "field", i)
           Descend(c1) ==
             IF c1.st # "ok" THEN c1
             ELSE traverse(f.val, FieldFlags(f, fl), p, env, c1)
       IN traverseFields(val, fl, path, env,
            Descend(IF HandleTag(env.asJSON /\ env.safe, f)
                    THEN processTag(f, f.val, FieldFlags(f, fl), p, env, ctx)
                    ELSE ctx),
            i + 1)

\* for i := 0; i < t.NumField(); i++ { processTag; traverse(val.Field(i)) }
traverseFields(val, fl, path, env, ctx, i) ==
  IF ctx.st # "ok" \/ i > Len(val.fields) THEN ctx
  ELSE LET f == val.fields[i]
           p == Step(path, "field", i)
           Descend(c1) ==
             IF c1.st # "ok" THEN c1
             ELSE traverse(f.val, FieldFlags(f, fl), p, env, c1)
       IN traverseFields(val, fl, path, env,
            Descend(IF HandleTag(env.asJSON, f)
                    THEN processTag(f, f.val, FieldFlags(f, fl), p, env, ctx)
                    ELSE ctx),
            i + 1)

traverse(val, fl, path, env, ctx) ==
  LET c0 == Logged(ctx, "traverse", path, <<>>, "")
  IN CASE val.kind = "invalid" -> Panicked(ctx, path)   \* val.Type()
       [] val.kind = "time" -> c0
       [] val.kind \in {"slice", "array"} ->
            traverseElems(val, fl, path, env, c0, 1)
       [] val.kind = "ptr" ->
            IF val.isnil THEN c0
            ELSE traverse(val.elem, ElemFlags(val, fl),
                          Step(path, "deref", 1), env, c0)
       [] val.kind = "map" -> traverseEntries(val, fl, path, env, c0, 1)
       [] val.kind = "interface" ->
            IF val.isnil THEN c0
            ELSE traverse(val.elem, ElemFlags(val, fl),
                          Step(path, "deref", 1), env, c0)
       [] val.kind = "struct" -> traverseFields(val, fl, path, env, c0, 1)
       [] OTHER -> c0

(***************************************************************************)
(* Validator.doValidation, Validate, ValidateAddressable                   *)
(***************************************************************************)
\* ok follows the last Result only (the loop without its break, assigning
\* ok = rslt.Valid).
AllValid_LastOnly(res) == res = <<>> \/ res[Len(res)].Valid

\* ok := true; for each result: if !Valid { ok = false; break }
AllValid(res) == \A i \in 1..Len(res) : res[i].Valid

NewContext(e) ==
  [eval |-> e, res |-> <<>>, log |-> <<>>, st |-> "ok", err |-> "",
   at |-> <<>>]

\* What the caller gets: a return of (ok, res, err), or no return at all.
Returned(ok, res, err) ==
  [status |-> "returned", ok |-> ok, res |-> res, err |-> err]

Crashed == [status |-> "panic", ok |-> FALSE, res |-> <<>>, err |-> ""]

doValidation(ctx) ==
  IF ctx.st = "panic" THEN Crashed
  ELSE IF ctx.st = "err" THEN Returned(FALSE, <<>>, ctx.err)
  ELSE Returned(AllValid(ctx.res), ctx.res, "")
\* The process-wide default mappers set up by init().
mappers == [t \in {"time.Time"} |-> "TimeMapper"]

\* An Option is a function applied to the Validator under construction.
AsJSON(b) == <<"asJSON", b>>
ShowSuccesses(b) == <<"showSuccesses", b>>

RECURSIVE ApplyOptions(_, _)
ApplyOptions(val, options) ==
  IF options = <<>> THEN val
  ELSE ApplyOptions(
         IF Head(options)[1] = "asJSON"
         THEN [val EXCEPT !.asJSON = Head(options)[2]]
         ELSE [val EXCEPT !.showSuccesses = Head(options)[2]],
         Tail(options))

RECURSIVE AddMappers(_, _)
AddMappers(e, types) ==
  IF types = {} THEN e
  ELSE LET t == CHOOSE x \in types : TRUE
       IN AddMappers(addTypeMapping(e, t, mappers[t]), types \ {t})

NewValidator(options) ==
  LET val == ApplyOptions(
               [asJSON |-> TRUE, showSuccesses |-> FALSE,
                eval |-> newEvaluator], options)
  IN [val EXCEPT !.eval = AddMappers(val.eval, DOMAIN mappers)]

\* The Validator handed back as it is, caches and runtime included.
Copy_KeepsCaches(v) == v

\* v.Copy(): &Validator{v.asJSON, v.showSuccesses, v.eval.copy()}
Copy(v) ==
  [asJSON |-> v.asJSON, showSuccesses |-> v.showSuccesses,
   eval |-> copy(v.eval)]

(***************************************************************************)
(* The values the program validates.                                       *)
(***************************************************************************)
NoText == <<>>
Name(c) == <<c>>

\* Expression-rule texts.
ExprGt == <<">", "5">>
ExprAGt == <<"A", ">", "5">>
ExprLe == <<"<", "=", "5">>
ExprLt == <<" ", "<", " ", "5">>
ExprGe == <<">", "=", "5">>
ExprEq == <<"=", "=", "5">>
ExprNe == <<"!", "=", "5">>
ExprAssign == <<"=", "5">>
ExprNot == <<"!", "A">>
ExprBang == <<"!">>
ExprBlank == <<" ">>
ExprSyntax == <<"A", ">">>
ExprUnbound == <<"Z", ">", "5">>

ExprTexts ==
  {ExprGt, ExprAGt, ExprLe, ExprLt, ExprGe, ExprEq, ExprNe, ExprAssign,
   ExprNot, ExprBang, ExprBlank, ExprSyntax, ExprUnbound}

\* Pattern-rule texts.
PatFive == <<"5">>
PatAnchored == <<"^", "5", "$">>
PatBad == <<"[">>

\* json tags.
JSONDash == <<"-">>
JSONOmit == <<"a">> \o OmitEmptySuffix

\* type Inner struct { C int `expr:">5"` }
Inner(n) == VStruct(<<Field(Name("C"), NoText, ExprGt, NoText, VInt("int", n))>>)

\* The last field of the generated roots: B int `expr:">5" regexp:"5"`.
FieldB == Field(Name("B"), NoText, ExprGt, PatFive, VInt("int", 50 + MaxInt))

Root(f) == VStruct(<<f, FieldB>>)

\* Roots whose first field A carries every rule text.
RuleRoots ==
  { Root(Field(Name("A"), NoText, e, r, VInt("int", MaxInt))) :
      e \in ExprTexts, r \in {NoText, PatFive, PatBad} }

\* Roots whose first field A holds every value under the two forms of the
\* same comparison.
ValueRoots ==
  { Root(Field(Name("A"), NoText, e, PatAnchored, v)) :
      e \in {ExprGt, ExprAGt},
      v \in {VInt("int", n) : n \in 0..MaxInt}
            \cup {VString(<<>>), VString(<<"7">>), VBool(TRUE)} }

FieldValues ==
  {VInt("int", 0), VInt("int", MaxInt), VNilPtr, VPtr(VInt("int", 0)),
   Inner(0), VPtr(Inner(0)), VPtr(Inner(MaxInt)), VNilSlice,
   VSlice(<<Inner(0)>>), VNilIface, VInt("int8", MaxInt)}

\* Roots whose first field varies in visibility, json tag, rules and value.
TagRoots ==
  { Root(Field(Name(n), j, e, r, v)) :
      n \in {"A", "b"}, j \in {NoText, JSONDash, JSONOmit},
      e \in {NoText, ExprGt, ExprSyntax}, r \in {NoText},
      v \in FieldValues }

\* A record with both rules on one field, a sequence of records and a
\* pointer to a record, in the manner of MyStruct of the package's tests.
OrderRoot ==
  VStruct(<<
    Field(Name("A"), NoText, ExprLt, PatAnchored, VInt("int", MaxInt)),
    Field(Name("D"), NoText, ExprNot, NoText,
          VSlice(<<Inner(0), Inner(MaxInt), Inner(1)>>)),
    Field(Name("C"), NoText, NoText, NoText,
          VArray(<<Inner(2), Inner(MaxInt)>>)),
    Field(Name("Z"), NoText, ExprLe, PatFive, VPtr(Inner(3))),
    FieldB >>)

\* A map of records, and records held by interfaces.
MapRoot ==
  VStruct(<<
    Field(Name("A"), NoText, NoText, NoText,
          VMap(<<VString(<<"a">>), VString(<<"b">>)>>,
               <<Inner(0), Inner(1)>>)),
    Field(Name("C"), NoText, ExprNot, NoText, VIface(Inner(2))),
    Field(Name("D"), NoText, ExprNot, NoText, VNilIface),
    FieldB >>)

\* A time.Time field under a rule and an omitempty tag.
TimeRoot ==
  VStruct(<<
    Field(Name("A"), JSONOmit, ExprNot, NoText, VTime(0)),
    Field(Name("C"), NoText, NoText, NoText, VTime(MaxInt)),
    FieldB >>)

\* type hidden struct { c T `expr:">5"` }: a record whose tagged field is
\* not exported and holds a record, a pointer to one or an interface
\* holding one.
Hidden(v) == VStruct(<<Field(Name("c"), NoText, ExprGt, NoText, v)>>)

HiddenValues ==
  {Inner(MaxInt), VPtr(Inner(MaxInt)), VIface(Inner(MaxInt))}

\* Where such a record lies: in a slice, in an array, in a map as a value
\* and as a key, in an interface, behind a pointer.
Holders(h) ==
  {VSlice(<<h>>), VArray(<<h>>), VMap(<<VString(<<"a">>)>>, <<h>>),
   VMap(<<h>>, <<VInt("int", 0)>>), VIface(h), VPtr(h)}

PrivateRoots ==
  { Root(Field(Name("A"), NoText, NoText, NoText, w)) :
      w \in UNION {Holders(Hidden(v)) : v \in HiddenValues} }

\* A map of two records where a rule of the one names a field of the other:
\*   "a": struct { C int `expr:"Z>5"`; Z int `expr:"<=5"` }{MaxInt, 0}
\*   "b": struct { Z int `expr:">5"` }{MaxInt}
LeakRoot ==
  VStruct(<<
    Field(Name("A"), NoText, NoText, NoText,
          VMap(<<VString(<<"a">>), VString(<<"b">>)>>,
               <<VStruct(<<Field(Name("C"), NoText, ExprUnbound, NoText,
                                 VInt("int", MaxInt)),
                           Field(Name("Z"), NoText, ExprLe, NoText,
                                 VInt("int", 0))>>),
                 VStruct(<<Field(Name("Z"), NoText, ExprGt, NoText,
                                 VInt("int", MaxInt))>>)>>)),
    FieldB >>)

\* A map that is the root: map[string]Inner of two entries.
InnerMap ==
  VMap(<<VString(<<"a">>), VString(<<"b">>)>>, <<Inner(0), Inner(MaxInt)>>)

\* An exported tagged field that holds a record, in a record held by a
\* field that is not exported:
\*   b struct { C Inner `expr:">5"` }
NestedRoot ==
  Root(Field(Name("b"), NoText, NoText, NoText,
             VStruct(<<Field(Name("C"), NoText, ExprGt, NoText,
                             Inner(MaxInt))>>)))

\* Not a record at all: a bare integer, a slice and a map of records.
Graphs ==
  {OrderRoot, MapRoot, LeakRoot, NestedRoot, TimeRoot, VInt("int", MaxInt),
   VSlice(<<Inner(0), Inner(MaxInt)>>), InnerMap, VInvalid}

Items == RuleRoots \cup ValueRoots \cup TagRoots \cup PrivateRoots \cup Graphs

(***************************************************************************)
(* The state: one Validator, the value the program validates with it, the  *)
(* last call and what it returned.  trail is the record of what that call  *)
(* did (the context of its traversal) and before the evaluator it started  *)
(* from.                                                                   *)
(***************************************************************************)
NoCall == [entry |-> "none", form |-> "none"]
NoReturn == [status |-> "none", ok |-> FALSE, res |-> <<>>, err |-> ""]

Init ==
  /\ \E options \in {<<>>}
                    \cup {<<AsJSON(b)>> : b \in BOOLEAN}
                    \cup {<<ShowSuccesses(b)>> : b \in BOOLEAN}
                    \cup {<<AsJSON(a), ShowSuccesses(b)>> : a, b \in BOOLEAN} :
       LET val == NewValidator(options)
       IN /\ asJSON = val.asJSON
          /\ showSuccesses = val.showSuccesses
          /\ eval = val.eval
  /\ item \in Items
  /\ call = NoCall
  /\ ret = NoReturn
  /\ trail = NewContext(eval)
  /\ before = eval
  /\ ncalls = 0
  /\ tasks = <<>>

\* The argument of a call: the value itself or a pointer to it; for the nil
\* value the pointer is a nil pointer.
Argument(it, form) ==
  IF form = "value" THEN it
  ELSE IF it.kind = "invalid" THEN VNilPtr
  ELSE VPtr(it)

Env(json, show, safe, swap) ==
  [asJSON |-> json, showSuccesses |-> show, safe |-> safe, swap |-> swap]

\* v.Validate(item): doValidation(reflect.ValueOf(item), true)
ValidateCall(e, json, show, arg, swap) ==
  traverse(arg, Flags(FALSE, FALSE), <<>>, Env(json, show, TRUE, swap),
           NewContext(e))

\* Without the test of rv.Kind(): whatever is handed in is traversed as
\* Validate traverses it.
ValidateAddressableCall_NoKindTest(e, json, show, arg, swap) ==
  IF arg.kind \notin {"ptr", "interface"}
  THEN traverse(arg, Flags(FALSE, FALSE), <<>>, Env(json, show, TRUE, swap),
                NewContext(e))
  ELSE traverse(Elem(arg), ElemFlags(arg, Flags(FALSE, FALSE)), <<>>,
                Env(json, show, FALSE, swap), NewContext(e))

\* v.ValidateAddressable(itemAddr): a pointer is required, the traversal
\* starts at rv.Elem(): doValidation(rv.Elem(), false)
ValidateAddressableCall(e, json, show, arg, swap) ==
  IF arg.kind \notin {"ptr", "interface"}
  THEN Failed(NewContext(e), "not addressable", <<>>)
  ELSE traverse(Elem(arg), ElemFlags(arg, Flags(FALSE, FALSE)), <<>>,
                Env(json, show, FALSE, swap), NewContext(e))

\* The context a call ends in, by entry point.
Outcome(entry, e, json, show, arg, swap) ==
  IF entry = "Validate" THEN ValidateCall(e, json, show, arg, swap)
  ELSE ValidateAddressableCall(e, json, show, arg, swap)

\* The end of a call had the script's variable been bound to the field
\* itself instead of a copy of its value: what the script assigned to the
\* first field's name is found in the field afterwards.
Finish_BoundByReference(entry, form, ctx) ==
  /\ ret' = doValidation(ctx)
  /\ eval' = ctx.eval
  /\ trail' = ctx
  /\ before' = eval
  /\ call' = [entry |-> entry, form |-> form]
  /\ ncalls' = ncalls + 1
  /\ item' = IF /\ item.kind = "struct"
                /\ item.fields[1].val.kind = "int"
                /\ item.fields[1].name \in DOMAIN ctx.eval.vm
                /\ ctx.eval.vm[item.fields[1].name].t = "num"
             THEN [item EXCEPT !.fields[1].val.n =
                     ctx.eval.vm[item.fields[1].name].n]
             ELSE item
  /\ UNCHANGED <<asJSON, showSuccesses, tasks>>

\* The end of a call: what the caller gets and what the call leaves behind.
\* Nothing on the way assigns through a reflect.Value, so the value handed
\* in is what it was.
Finish(entry, form, ctx) ==
  /\ ret' = doValidation(ctx)
  /\ eval' = ctx.eval
  /\ trail' = ctx
  /\ before' = eval
  /\ call' = [entry |-> entry, form |-> form]
  /\ ncalls' = ncalls + 1
  /\ UNCHANGED <<asJSON, showSuccesses, item, tasks>>

Validate(form, swap) ==
  /\ ncalls < MaxCalls
  /\ ret.status # "panic"
  /\ Finish("Validate", form,
            ValidateCall(eval, asJSON, showSuccesses, Argument(item, form),
                         swap))

ValidateAddressable(form, swap) ==
  /\ ncalls < MaxCalls
  /\ ret.status # "panic"
  /\ Finish("ValidateAddressable", form,
            ValidateAddressableCall(eval, asJSON, showSuccesses,
                                    Argument(item, form), swap))

\* v.AddTypeMapping(t, tm): the caller registers a mapper of their own, here
\* for a type that has none yet.  The record of the last call is of the
\* evaluator as it was, so it is dropped.
AddTypeMapping(t, tm) ==
  /\ ret.status # "panic"
  /\ t \notin DOMAIN eval.mapping
  /\ eval' = addTypeMapping(eval, t, tm)
  /\ call' = NoCall
  /\ ret' = NoReturn
  /\ trail' = NewContext(eval')
  /\ before' = eval'
  /\ UNCHANGED <<asJSON, showSuccesses, item, ncalls, tasks>>

\* vc := v.Copy(): the program goes on with the copy.
CopyCall ==
  LET Becomes(vc) ==
        /\ asJSON' = vc.asJSON
        /\ showSuccesses' = vc.showSuccesses
        /\ eval' = vc.eval
  IN /\ ret.status # "panic"
     /\ Becomes(Copy([asJSON |-> asJSON, showSuccesses |-> showSuccesses,
                      eval |-> eval]))
     /\ call' = NoCall
     /\ ret' = NoReturn
     /\ trail' = NewContext(eval')
     /\ before' = eval'
     /\ UNCHANGED <<item, ncalls, tasks>>

Forms == {"value", "pointer"}

UserMappers == {"DateOfInt", "Unclosed"}

Next ==
  \/ \E form \in Forms, swap \in BOOLEAN : Validate(form, swap)
  \/ \E form \in Forms, swap \in BOOLEAN : ValidateAddressable(form, swap)
  \/ \E tm \in UserMappers : AddTypeMapping("int", tm)
  \/ CopyCall

Spec == Init /\ [][Next]_vars

(***************************************************************************)
(* NewValidator over named options (validator.go): an Option is a name and *)
(* a value of any type, checked when the Validator is made.                *)
(***************************************************************************)
MaxOptions == 2

ProcessAsJSON == "ProcessAsJson"
ShowSuccessesOption == "ShowSuccesses"

Option(name, value) == [Name |-> name, Value |-> value]

RECURSIVE Configure(_, _)

\* The loop with a default arm that passes an unknown name over.
Configure_SkipsUnknown(ret0, options) ==
  IF options = <<>> THEN [ret |-> ret0, err |-> ""]
  ELSE CASE Head(options).Name = ProcessAsJSON ->
              IF Head(options).Value.kind # "bool"
              THEN [ret |-> ret0, err |-> "configuration"]
              ELSE Configure([ret0 EXCEPT !.processAsJSON =
                                Head(options).Value.b], Tail(options))
         [] Head(options).Name = ShowSuccessesOption ->
              IF Head(options).Value.kind # "bool"
              THEN [ret |-> ret0, err |-> "configuration"]
              ELSE Configure([ret0 EXCEPT !.showSuccesses =
                                Head(options).Value.b], Tail(options))
         [] OTHER -> Configure(ret0, Tail(options))

\* for _, opt := range options { switch opt.Name { ... } }
Configure(ret0, options) ==
  IF options = <<>> THEN [ret |-> ret0, err |-> ""]
  ELSE CASE Head(options).Name = ProcessAsJSON ->
              IF Head(options).Value.kind # "bool"
              THEN [ret |-> ret0, err |-> "configuration"]
              ELSE Configure([ret0 EXCEPT !.processAsJSON =
                                Head(options).Value.b], Tail(options))
         [] Head(options).Name = ShowSuccessesOption ->
              IF Head(options).Value.kind # "bool"
              THEN [ret |-> ret0, err |-> "configuration"]
              ELSE Configure([ret0 EXCEPT !.showSuccesses =
                                Head(options).Value.b], Tail(options))
         [] OTHER -> [ret |-> ret0, err |-> "configuration"]

\* NewValidator(options ...Option) (*Validator, error): the Validator, or
\* nil and the error.
NewValidatorNamed(options) ==
  LET Made(r) ==
        IF r.err # "" THEN [nil |-> TRUE, err |-> r.err]
        ELSE [nil |-> FALSE, err |-> "",
              val |-> [r.ret EXCEPT !.eval = AddMappers(@, DOMAIN mappers)]]
  IN Made(Configure([processAsJSON |-> TRUE, showSuccesses |-> FALSE,
                     eval |-> newEvaluator], options))

\* The options a caller may write: the two names and one that is none of
\* them, with bool values and values of other types.
OptionNames == {ProcessAsJSON, ShowSuccessesOption, "invalid option"}
OptionValues ==
  {VBool(TRUE), VBool(FALSE), VInt("int", 3), VString(<<"h", "i">>)}
Options == {Option(n, v) : n \in OptionNames, v \in OptionValues}

OptionLists ==
  UNION {[1..n -> Options] : n \in 0..MaxOptions}

\* No Validator yet.
NoValidator == [nil |-> TRUE]

\* The program is about to call NewValidator with some options.
InitNew ==
  /\ call \in {[entry |-> "NewValidator", form |-> "pending", options |-> o] :
                 o \in OptionLists}
  /\ ret = NoReturn
  /\ asJSON = FALSE
  /\ showSuccesses = FALSE
  /\ eval = NoValidator
  /\ item = VInvalid
  /\ trail = NewContext(NoValidator)
  /\ before = NoValidator
  /\ ncalls = 0
  /\ tasks = <<>>

\* v, err := NewValidator(options...)
NewValidatorCall ==
  /\ call.entry = "NewValidator"
  /\ call.form = "pending"
  /\ LET Got(r) ==
           IF r.nil
           THEN /\ ret' = Returned(FALSE, <<>>, r.err)
                /\ UNCHANGED <<asJSON, showSuccesses, eval>>
           ELSE /\ ret' = Returned(TRUE, <<>>, "")
                /\ asJSON' = r.val.processAsJSON
                /\ showSuccesses' = r.val.showSuccesses
                /\ eval' = r.val.eval
     IN Got(NewValidatorNamed(call.options))
  /\ call' = [call EXCEPT !.form = "done"]
  /\ UNCHANGED <<item, trail, before, ncalls, tasks>>

NextNew == NewValidatorCall

SpecNew == InitNew /\ [][NextNew]_vars

(***************************************************************************)
(* Two goroutines.  Each holds a *Validator and makes calls on it, and a   *)
(* call runs step by step: traverse entered for one value, processTag for  *)
(* one field, and inside evalBoolExpr the binding (up to e.vm.Set) and the *)
(* run (from the cache lookup on) as two steps, between which the other    *)
(* goroutine may run.  Here eval is the evaluators of the program by       *)
(* address, and a Validator holds the address of its evaluator.            *)
(***************************************************************************)
Goroutines == {1, 2}

InCall == {"walk", "bind", "execute"}

\* The calls traverse has still to make: traverse of a value, or processTag
\* of a field.
TraverseFrame(val, fl, path) ==
  [op |-> "traverse", val |-> val, fl |-> fl, path |-> path]

TagFrame(f, fl, path) == [op |-> "processTag", f |-> f, fl |-> fl, path |-> path]

\* The same calls, the last one first.
Calls_LastFirst(val, fl, path, env) ==
  CASE val.kind \in {"slice", "array"} ->
         [i \in 1..Len(val.elems) |->
            TraverseFrame(val.elems[Len(val.elems) + 1 - i],
                          IndexFlags(val, fl),
                          Step(path, "index", Len(val.elems) + 1 - i))]
    [] val.kind \in {"ptr", "interface"} ->
         IF val.isnil THEN <<>>
         ELSE <<TraverseFrame(val.elem, ElemFlags(val, fl),
                              Step(path, "deref", 1))>>
    [] val.kind = "map" ->
         [j \in 1..(2 * Len(val.keys)) |->
            LET k == MapKeys(val, ~env.swap)[(j + 1) \div 2]
            IN IF j % 2 = 1
               THEN TraverseFrame(val.keys[k], MapFlags(fl),
                                  Step(path, "key", k))
               ELSE TraverseFrame(val.vals[k], MapFlags(fl),
                                  Step(path, "value", k))]
    [] val.kind = "struct" ->
         LET Of(i) ==
               (IF HandleTag(env.asJSON, val.fields[i])
                THEN <<TagFrame(val.fields[i],
                                FieldFlags(val.fields[i], fl),
                                Step(path, "field", i))>>
                ELSE <<>>)
               \o <<TraverseFrame(val.fields[i].val,
                                  FieldFlags(val.fields[i], fl),
                                  Step(path, "field", i))>>
             Upto[i \in 0..Len(val.fields)] ==
               IF i = 0 THEN <<>> ELSE Of(i) \o Upto[i - 1]
         IN Upto[Len(val.fields)]
    [] OTHER -> <<>>

\* The calls the body of traverse makes for one value, in the order it makes
\* them: the elements by index, what a pointer or an interface holds, the
\* entries in the order of val.MapKeys() with the key before the value, the
\* fields in declaration order with processTag before the descent.
Calls(val, fl, path, env) ==
  CASE val.kind \in {"slice", "array"} ->
         [i \in 1..Len(val.elems) |->
            TraverseFrame(val.elems[i], IndexFlags(val, fl),
                          Step(path, "index", i))]
    [] val.kind \in {"ptr", "interface"} ->
         IF val.isnil THEN <<>>
         ELSE <<TraverseFrame(val.elem, ElemFlags(val, fl),
                              Step(path, "deref", 1))>>
    [] val.kind = "map" ->
         [j \in 1..(2 * Len(val.keys)) |->
            LET k == MapKeys(val, env.swap)[(j + 1) \div 2]
            IN IF j % 2 = 1
               THEN TraverseFrame(val.keys[k], MapFlags(fl),
                                  Step(path, "key", k))
               ELSE TraverseFrame(val.vals[k], MapFlags(fl),
                                  Step(path, "value", k))]
    [] val.kind = "struct" ->
         LET Of(i) ==
               (IF HandleTag(env.asJSON, val.fields[i])
                THEN <<TagFrame(val.fields[i],
                                FieldFlags(val.fields[i], fl),
                                Step(path, "field", i))>>
                ELSE <<>>)
               \o <<TraverseFrame(val.fields[i].val,
                                  FieldFlags(val.fields[i], fl),
                                  Step(path, "field", i))>>
             Upto[i \in 0..Len(val.fields)] ==
               IF i = 0 THEN <<>> ELSE Upto[i - 1] \o Of(i)
         IN Upto[Len(val.fields)]
    [] OTHER -> <<>>

\* processTag gets as far as the call of evalBoolExpr for this field: it has
\* an expression rule that is not blank, is not left out by its json tag,
\* its concrete value is found and is not skipped as a zero value.
ReachesEval(f, fl, env) ==
  LET With(r) == r.st = "ok" /\ ~SkipZero(env.asJSON, f, r.iface)
  IN /\ exprTagOf(f) # <<>>
     /\ TrimSpace(exprTagOf(f)) # <<>>
     /\ ~JSONSkip(env.asJSON, jtagOf(f))
     /\ With(Resolve(f.val, fl, env.safe))

\* A goroutine that holds no Validator yet.
NoTask ==
  [val |-> NoValidator, inst |-> 0, from |-> "none", pc |-> "idle",
   entry |-> "none",
   form |-> "none", swap |-> FALSE, safe |-> TRUE, stack |-> <<>>,
   ctx |-> NewContext(NoValidator), cur |-> NoCall, start |-> NoValidator,
   own |-> NoValidator, ret |-> NoReturn, overlapped |-> FALSE,
   mixed |-> FALSE, torn |-> FALSE]

\* A goroutine that has just been handed the Validator val, whose evaluator
\* is e; inst tells the Validators of the program apart and from is the
\* function that returned this one.
Holding(val, inst, from, e) ==
  [NoTask EXCEPT !.val = val, !.inst = inst, !.from = from, !.own = e]

\* NewValidator(options...): eval := newEvaluator() is a new evaluator of
\* the program, the Validator returned points to it.
Made(heap, options) ==
  [heap |-> Append(heap, NewValidator(options).eval),
   val |-> [NewValidator(options) EXCEPT !.eval = Len(heap) + 1]]

\* A copy that keeps the evaluator of the original.
Copied_SameEvaluator(heap, v) == [heap |-> heap, val |-> v]

\* v.Copy(): &Validator{..., v.eval.copy()}, a new evaluator as well.
Copied(heap, v) ==
  LET Of(vc) ==
        [heap |-> Append(heap, vc.eval),
         val |-> [vc EXCEPT !.eval = Len(heap) + 1]]
  IN Of(Copy([v EXCEPT !.eval = heap[v.eval]]))

TaskOptions == {<<>>, <<AsJSON(FALSE), ShowSuccesses(TRUE)>>}

TaskItems ==
  { VSlice(<<Inner(0), Inner(MaxInt)>>),
    InnerMap,
    Root(Field(Name("A"), NoText, ExprGt, PatFive, VInt("int", MaxInt))),
    Root(Field(Name("b"), NoText, ExprBlank, NoText, VInt("int", 0))) }

\* The orders val.MapKeys() can give for the item: one when it is no map.
KeyOrders(it) == IF it.kind = "map" THEN BOOLEAN ELSE {FALSE}

InitTasks ==
  /\ \E options \in TaskOptions :
       LET First(m) ==
             /\ asJSON = m.val.asJSON
             /\ showSuccesses = m.val.showSuccesses
             /\ eval = m.heap
             /\ tasks = <<Holding(m.val, 1, "NewValidator", m.heap[1]), NoTask>>
       IN First(Made(<<>>, options))
  /\ item \in TaskItems
  /\ call = NoCall
  /\ ret = NoReturn
  /\ trail = NewContext(NoValidator)
  /\ before = NoValidator
  /\ ncalls = 0

\* No goroutine has panicked: a panic ends the program.
Alive == \A g \in Goroutines : tasks[g].ret.status # "panic"

Rest == <<asJSON, showSuccesses, item, call, ret, trail, before>>

\* A step of goroutine g is over.  t is the goroutine after it, e the
\* evaluator of its Validator as the step leaves it and name the variable
\* the step bound (none: the empty text).  A goroutine that is in a call
\* meanwhile has had another goroutine run during its call; if it works on
\* the same evaluator and the step has changed it, its call no longer sees
\* what it left there; if it stands between its bind and its execute and
\* the step bound the variable of its rule, its rule runs against a value
\* bound by the other call.
Commit(g, t, e, name) ==
  LET a == tasks[g].val.eval
      Seen(h) ==
        IF h = g THEN [t EXCEPT !.own = e]
        ELSE IF tasks[h].pc \notin InCall THEN tasks[h]
        ELSE IF tasks[h].val.eval # a
          THEN [tasks[h] EXCEPT !.overlapped = TRUE]
        ELSE [tasks[h] EXCEPT
                !.overlapped = TRUE,
                !.mixed = @ \/ e # eval[a],
                !.torn = @ \/ (/\ name # <<>>
                               /\ tasks[h].pc = "execute"
                               /\ tasks[h].cur.f.name = name)]
  IN /\ tasks' = [h \in Goroutines |-> Seen(h)]
     /\ eval' = [eval EXCEPT ![a] = e]

\* Goroutine g is handed the *Validator goroutine h holds.
Share(h, g) ==
  /\ Alive
  /\ tasks[h].val # NoValidator
  /\ tasks[g].val = NoValidator
  /\ tasks' = [tasks EXCEPT
                 ![g] = Holding(tasks[h].val, tasks[h].inst, tasks[h].from,
                                eval[tasks[h].val.eval])]
  /\ UNCHANGED <<eval, ncalls>>
  /\ UNCHANGED Rest

\* Goroutine g is handed h's Validator's Copy().
CopyFor(h, g) ==
  LET Got(m) ==
        /\ eval' = m.heap
        /\ tasks' = [tasks EXCEPT
                       ![g] = Holding(m.val, tasks[h].inst + 1, "Copy",
                                      m.heap[m.val.eval])]
  IN /\ Alive
     /\ tasks[h].val # NoValidator
     /\ tasks[g].val = NoValidator
     /\ Got(Copied(eval, tasks[h].val))
     /\ UNCHANGED ncalls
     /\ UNCHANGED Rest

\* Goroutine g makes a Validator of its own with NewValidator, with the
\* options the first one was made with.
NewFor(h, g) ==
  LET Got(m) ==
        /\ eval' = m.heap
        /\ tasks' = [tasks EXCEPT
                       ![g] = Holding(m.val, tasks[h].inst + 1,
                                      "NewValidator", m.heap[m.val.eval])]
  IN /\ Alive
     /\ tasks[h].val # NoValidator
     /\ tasks[g].val = NoValidator
     /\ Got(Made(eval, <<AsJSON(asJSON), ShowSuccesses(showSuccesses)>>))
     /\ UNCHANGED ncalls
     /\ UNCHANGED Rest

\* Goroutine g calls v.Validate(item) or v.ValidateAddressable(item): up to
\* the first call of traverse.
Begin(g, entry, form, swap) ==
  LET t == tasks[g]
      Begun(stack, safe, ctx) ==
        [t EXCEPT !.pc = "walk", !.entry = entry, !.form = form,
                  !.swap = swap, !.safe = safe, !.stack = stack,
                  !.ctx = ctx, !.start = eval[t.val.eval],
                  !.ret = NoReturn, !.overlapped = FALSE, !.mixed = FALSE,
                  !.torn = FALSE]
      From(arg, c) ==
        IF entry = "Validate"
        THEN Begun(<<TraverseFrame(arg, Flags(FALSE, FALSE), <<>>)>>, TRUE, c)
        ELSE IF arg.kind \notin {"ptr", "interface"}
          THEN Begun(<<>>, FALSE, Failed(c, "not addressable", <<>>))
        ELSE Begun(<<TraverseFrame(Elem(arg),
                                   ElemFlags(arg, Flags(FALSE, FALSE)),
                                   <<>>)>>, FALSE, c)
  IN /\ Alive
     /\ t.val # NoValidator
     /\ t.pc = "idle"
     /\ ncalls < MaxCalls
     /\ ncalls' = ncalls + 1
     /\ Commit(g, From(Argument(item, form), NewContext(eval[t.val.eval])),
               eval[t.val.eval], <<>>)
     /\ UNCHANGED Rest

\* The next call of the traversal of goroutine g: traverse is entered for a
\* value and the calls of its body are the next to make, or processTag runs
\* for a field, as far as the call of evalBoolExpr when it gets there.
Walk(g) ==
  LET t == tasks[g]
      a == t.val.eval
      fr == Head(t.stack)
      env == Env(t.val.asJSON, t.val.showSuccesses, t.safe, t.swap)
      Left(c, stack) ==
        Commit(g, [t EXCEPT !.ctx = c,
                            !.stack = IF c.st = "ok" THEN stack ELSE <<>>],
               c.eval, <<>>)
      Entered(c) ==
        IF fr.val.kind = "invalid" THEN Left(Panicked(c, fr.path), <<>>)
        ELSE Left(Logged(c, "traverse", fr.path, <<>>, ""),
                  Calls(fr.val, fr.fl, fr.path, env) \o Tail(t.stack))
      Tagged(c) ==
        IF ReachesEval(fr.f, fr.fl, env)
        THEN Commit(g, [t EXCEPT
                          !.ctx = Logged(c, "processTag", fr.path, <<>>, ""),
                          !.stack = Tail(@),
                          !.pc = "bind",
                          !.cur = [f |-> fr.f,
                                   iface |-> Resolve(fr.f.val, fr.fl,
                                                     env.safe).iface,
                                   path |-> fr.path,
                                   expr |-> ScriptText(fr.f)]],
                    eval[a], <<>>)
        ELSE Left(processTag(fr.f, fr.f.val, fr.fl, fr.path, env, c),
                  Tail(t.stack))
  IN /\ Alive
     /\ t.pc = "walk"
     /\ t.stack # <<>>
     /\ IF fr.op = "traverse" THEN Entered([t.ctx EXCEPT !.eval = eval[a]])
        ELSE Tagged([t.ctx EXCEPT !.eval = eval[a]])
     /\ UNCHANGED ncalls
     /\ UNCHANGED Rest

\* evalBoolExpr as far as e.vm.Set(name, val): the variable is bound in the
\* evaluator, or the mapper's error ends the call.
BindVar(g) ==
  LET t == tasks[g]
      a == t.val.eval
      env == Env(t.val.asJSON, t.val.showSuccesses, t.safe, t.swap)
      Bound(b) ==
        IF b.err
        THEN Commit(g, [t EXCEPT
                          !.pc = "walk", !.stack = <<>>,
                          !.ctx = exprResult(t.cur.f, t.cur.iface, t.cur.path,
                                    env, t.ctx, t.cur.expr,
                                    [eval |-> eval[a], bv |-> FALSE,
                                     err |-> "mapping"])],
                    eval[a], <<>>)
        ELSE Commit(g, [t EXCEPT !.pc = "execute"], b.eval, t.cur.f.name)
  IN /\ Alive
     /\ t.pc = "bind"
     /\ Bound(bindValue(eval[a], t.cur.f.name, t.cur.iface))
     /\ UNCHANGED ncalls
     /\ UNCHANGED Rest

\* The rest of evalBoolExpr, against the evaluator as it is by now, and the
\* rest of processTag: the result or the error, then the pattern rule.
Execute(g) ==
  LET t == tasks[g]
      a == t.val.eval
      env == Env(t.val.asJSON, t.val.showSuccesses, t.safe, t.swap)
      Ruled(c) ==
        IF c.st # "ok" \/ regexpTagOf(t.cur.f) = <<>> THEN c
        ELSE regexpRule(t.cur.f, t.cur.iface, t.cur.path, env, c)
      Done(c) ==
        Commit(g, [t EXCEPT !.pc = "walk", !.ctx = c,
                            !.stack = IF c.st = "ok" THEN @ ELSE <<>>],
               c.eval, <<>>)
  IN /\ Alive
     /\ t.pc = "execute"
     /\ Done(Ruled(exprResult(t.cur.f, t.cur.iface, t.cur.path, env, t.ctx,
                              t.cur.expr, runScript(eval[a], t.cur.expr))))
     /\ UNCHANGED ncalls
     /\ UNCHANGED Rest

\* The traversal is over: doValidation returns to the caller.
Return(g) ==
  LET t == tasks[g]
  IN /\ Alive
     /\ t.pc = "walk"
     /\ t.stack = <<>>
     /\ tasks' = [tasks EXCEPT ![g] = [t EXCEPT !.pc = "idle",
                                                !.ret = doValidation(t.ctx)]]
     /\ UNCHANGED <<eval, ncalls>>
     /\ UNCHANGED Rest

\* Goroutine g, between its calls, registers a mapper with its Validator.
Register(g, typ, tm) ==
  LET t == tasks[g]
  IN /\ Alive
     /\ t.val # NoValidator
     /\ t.pc = "idle"
     /\ typ \notin DOMAIN eval[t.val.eval].mapping
     /\ Commit(g, t, addTypeMapping(eval[t.val.eval], typ, tm), <<>>)
     /\ UNCHANGED ncalls
     /\ UNCHANGED Rest

NextTasks ==
  \/ \E h, g \in Goroutines : Share(h, g)
  \/ \E h, g \in Goroutines : CopyFor(h, g)
  \/ \E h, g \in Goroutines : NewFor(h, g)
  \/ \E g \in Goroutines, entry \in {"Validate", "ValidateAddressable"},
        swap \in KeyOrders(item) : Begin(g, entry, "pointer", swap)
  \/ \E g \in Goroutines : Walk(g)
  \/ \E g \in Goroutines : BindVar(g)
  \/ \E g \in Goroutines : Execute(g)
  \/ \E g \in Goroutines : Return(g)
  \/ \E g \in Goroutines : Register(g, "int", "Unclosed")

SpecTasks == InitTasks /\ [][NextTasks]_vars

(***************************************************************************)
(* The positions of the value graph, and what the last call did at each.   *)
(***************************************************************************)
\* Every field of every record of the graph under val: where it lies, the
\* field, and whether it is reached through a non-exported field.
RECURSIVE Positions(_, _, _)
Positions(val, path, ro) ==
  CASE val.kind = "struct" ->
         UNION { LET f == val.fields[i]
                     p == Step(path, "field", i)
                     r == ro \/ ~IsUpper(Head(f.name))
                 IN {[path |-> p, f |-> f, ro |-> r, parentRO |-> ro]}
                      \cup Positions(f.val, p, r) :
                 i \in 1..Len(val.fields) }
    [] val.kind \in {"slice", "array"} ->
         UNION { Positions(val.elems[i], Step(path, "index", i), ro) :
                 i \in 1..Len(val.elems) }
    [] val.kind \in {"ptr", "interface"} ->
         IF val.isnil THEN {}
         ELSE Positions(val.elem, Step(path, "deref", 1), ro)
    [] val.kind = "map" ->
         UNION { Positions(val.keys[k], Step(path, "key", k), ro)
                   \cup Positions(val.vals[k], Step(path, "value", k), ro) :
                 k \in 1..Len(val.keys) }
    [] OTHER -> {}

\* The value the traversal of a call starts from.
StartOf(entry, it, form) ==
  IF entry = "Validate" THEN Argument(it, form)
  ELSE IF Argument(it, form).kind = "ptr" THEN Elem(Argument(it, form))
  ELSE VInvalid

\* The fields in the graph of the last call.
Fields ==
  IF call.entry = "none" THEN {}
  ELSE Positions(StartOf(call.entry, item, call.form), <<>>, FALSE)

Backends == {"evalBoolExpr", "evalRegexp"}

\* The steps of the last call at a position.
StepsAt(fns, path) ==
  {k \in 1..Len(trail.log) :
     trail.log[k].fn \in fns /\ trail.log[k].path = path}

\* The Results the last call gathered at a position.
ResultsAt(path) == {i \in 1..Len(trail.res) : trail.res[i].path = path}

\* The last call ended (by an error or a panic) at this position.
StoppedAt(path) == trail.st # "ok" /\ trail.at = path

\* The last call left the position alone: no Result, no backend call, and
\* it did not end there.
Untouched(path) ==
  /\ ResultsAt(path) = {}
  /\ StepsAt(Backends, path) = {}
  /\ ~StoppedAt(path)

Plain == ret.status = "returned" /\ ret.err = ""

(***************************************************************************)
(* C1.  A call that returns no error returns ok = TRUE exactly when its    *)
(* Result list is empty or holds only Results with Valid = TRUE.           *)
(***************************************************************************)
C1_OkIsConjunction ==
  Plain =>
    (ret.ok <=> ~(\E i \in 1..Len(ret.res) : ~ret.res[i].Valid))

\* A returned list that mixes passing and failing Results, the last one
\* passing.
C1_Witness ==
  /\ Plain
  /\ ~ret.ok
  /\ Len(ret.res) >= 2
  /\ ~ret.res[1].Valid
  /\ ret.res[Len(ret.res)].Valid

(***************************************************************************)
(* C2.  For every rule a backend evaluated without error, a Result was     *)
(* appended exactly when the rule evaluated to false or showSuccesses is   *)
(* set, and its Valid flag is what the backend answered.  An error return  *)
(* stems from a step that failed, never from a rule that evaluated to      *)
(* false.  Without showSuccesses every returned Result has Valid = FALSE.  *)
(***************************************************************************)
RuleOf(fn) == IF fn = "evalBoolExpr" THEN "expr" ELSE "regexp"

ResultsFor(step) ==
  {i \in ResultsAt(step.path) : trail.res[i].rule = RuleOf(step.fn)}

C2_ReportedIffFalseOrShown ==
  /\ \A k \in 1..Len(trail.log) :
       LET step == trail.log[k]
       IN (step.fn \in Backends /\ step.out \in {"true", "false"}) =>
            /\ (ResultsFor(step) # {}
                  <=> (step.out = "false" \/ showSuccesses))
            /\ \A i \in ResultsFor(step) :
                 /\ trail.res[i].Valid = (step.out = "true")
                 /\ trail.res[i].Expr = step.text
            /\ ~(StoppedAt(step.path) /\ trail.log[Len(trail.log)] = step)
  /\ (Plain /\ ~showSuccesses) =>
       \A i \in 1..Len(ret.res) : ~ret.res[i].Valid

\* Without showSuccesses: one rule passed and left no Result, another failed
\* and left one, and the call returned no error.
C2_Witness ==
  /\ Plain
  /\ ~showSuccesses
  /\ \E j, k \in 1..Len(trail.log) :
       /\ trail.log[j].fn \in Backends /\ trail.log[j].out = "true"
       /\ trail.log[k].fn \in Backends /\ trail.log[k].out = "false"
  /\ ret.res # <<>>

(***************************************************************************)
(* C3.  The Result list is in traversal order: fields in declaration       *)
(* order, the elements of a sequence by ascending index, a field's own     *)
(* Results before those found under its value, and for one field the       *)
(* expression Result before the pattern Result.                            *)
(***************************************************************************)
IsPrefix(p, q) == Len(p) <= Len(q) /\ SubSeq(q, 1, Len(p)) = p

\* Where two paths, neither a prefix of the other, part.
Fork(p, q) == CHOOSE k \in 1..Len(p) : p[k] # q[k] /\ SubSeq(p, 1, k - 1) = SubSeq(q, 1, k - 1)

\* Result a comes before Result b in the order the claim states (the
\* entries of a map are in no stated order).
InOrder(a, b) ==
  IF a.path = b.path THEN a.rule = "expr" /\ b.rule = "regexp"
  ELSE IF IsPrefix(a.path, b.path) THEN TRUE
  ELSE IF IsPrefix(b.path, a.path) THEN FALSE
  ELSE LET k == Fork(a.path, b.path)
       IN IF a.path[k][1] \in {"field", "index"}
          THEN a.path[k][2] < b.path[k][2]
          ELSE TRUE

C3_TraversalOrder ==
  \A i, j \in 1..Len(trail.res) :
    i < j => InOrder(trail.res[i], trail.res[j])

\* Both Results of one field, then Results of three elements of a sequence
\* under a later field that has a Result of its own, then a later field.
C3_Witness ==
  /\ Plain
  /\ \E i, j, k, l, m \in 1..Len(ret.res) :
       /\ i < j /\ j < k /\ k < l /\ l < m
       /\ ret.res[i].path = ret.res[j].path
       /\ IsPrefix(ret.res[k].path, ret.res[l].path)
       /\ ret.res[k].path # ret.res[l].path
       /\ ret.res[l].path[Len(ret.res[k].path) + 1] = <<"index", 1>>
       /\ \E n \in 1..Len(ret.res) :
            /\ l < n
            /\ IsPrefix(ret.res[k].path, ret.res[n].path)
            /\ Len(ret.res[n].path) > Len(ret.res[k].path)
            /\ ret.res[n].path[Len(ret.res[k].path) + 1] = <<"index", 3>>
       /\ ~IsPrefix(ret.res[k].path, ret.res[m].path)

(***************************************************************************)
(* C4.  A field with neither an expression rule nor a pattern rule yields  *)
(* no Result and is handed to neither backend, whatever it holds.          *)
(***************************************************************************)
C4_UntaggedFieldUntouched ==
  \A pos \in Fields :
    (pos.f.expr = <<>> /\ pos.f.regexp = <<>>) => Untouched(pos.path)

\* An exported, untagged field holding a value was passed by processTag in
\* a call that went on to report other fields.
C4_Witness ==
  /\ Plain
  /\ ret.res # <<>>
  /\ \E pos \in Fields :
       /\ pos.f.expr = <<>> /\ pos.f.regexp = <<>>
       /\ pos.f.val = VInt("int", MaxInt)
       /\ pos.f.json # <<>>
       /\ StepsAt({"processTag"}, pos.path) # {}

(***************************************************************************)
(* C5.  When a step of the processing of a field fails (the value cannot   *)
(* be accessed, a script does not compile or run, a pattern does not       *)
(* compile, a mapper fails), that step is the last one of the call, and    *)
(* the call returns ok = FALSE, no Result list and the error.              *)
(***************************************************************************)
C5_ErrorStopsCall ==
  /\ \A k \in 1..Len(trail.log) :
       trail.log[k].out \in {"error", "panic"} =>
         /\ k = Len(trail.log)
         /\ ret.status = "returned"
         /\ ~ret.ok /\ ret.res = <<>> /\ ret.err # ""
  /\ trail.st = "err" =>
       /\ ret = Returned(FALSE, <<>>, trail.err)
       /\ trail.err # ""
       /\ trail.log # <<>> => trail.log[Len(trail.log)].path = trail.at

(***************************************************************************)
(* C6.  The text handed to the expression evaluator for a field is the     *)
(* field name, one space and the rule text when the trimmed rule text      *)
(* begins with <, <=, >, >=, == or !=, and the rule text itself in every   *)
(* other case.                                                             *)
(***************************************************************************)
RelationalOperators ==
  {<<"<">>, <<"<", "=">>, <<">">>, <<">", "=">>, <<"=", "=">>, <<"!", "=">>}

BeginsRelational(text) ==
  \E op \in RelationalOperators : HasPrefix(TrimSpace(text), op)

C6_RewriteIffRelational ==
  \A pos \in Fields :
    \A k \in StepsAt({"evalBoolExpr"}, pos.path) :
      trail.log[k].text =
        IF BeginsRelational(pos.f.expr)
        THEN pos.f.name \o <<" ">> \o pos.f.expr
        ELSE pos.f.expr

(***************************************************************************)
(* C7.  A call on a record whose field A carries the rule text ">5" ends   *)
(* as the same call, from the same evaluator, on the record whose field A  *)
(* carries "A>5" instead: the same return status, ok and error, and the    *)
(* same Results (field, value, rule, Valid) in the same places.            *)
(***************************************************************************)
IsFieldA(f) == f.name = Name("A") /\ f.expr = ExprGt

CarriesShorthand(it) ==
  it.kind = "struct" /\ \E i \in 1..Len(it.fields) : IsFieldA(it.fields[i])

\* The same record with "A>5" written out on field A.
LongForm(it) ==
  [it EXCEPT !.fields =
     [i \in 1..Len(it.fields) |->
        IF IsFieldA(it.fields[i]) THEN [it.fields[i] EXCEPT !.expr = ExprAGt]
        ELSE it.fields[i]]]

\* What the Results say, the rule text left out.
Verdicts(res) ==
  [i \in 1..Len(res) |->
     [Name |-> res[i].Name, Value |-> res[i].Value, Type |-> res[i].Type,
      Valid |-> res[i].Valid, path |-> res[i].path, rule |-> res[i].rule]]

C7_ShorthandEquivalence ==
  (call.entry # "none" /\ CarriesShorthand(item)) =>
    LET Same(twin, out) ==
          /\ out.status = ret.status
          /\ out.ok = ret.ok
          /\ out.err = ret.err
          /\ Verdicts(out.res) = Verdicts(ret.res)
          /\ Verdicts(twin.res) = Verdicts(trail.res)
          /\ twin.st = trail.st /\ twin.at = trail.at
        Twin(twin) == Same(twin, doValidation(twin))
    IN Twin(Outcome(call.entry, before, asJSON, showSuccesses,
                    Argument(LongForm(item), call.form), FALSE))

\* Field A under ">5" was evaluated in its rewritten form and reported.
C7_Witness ==
  /\ Plain
  /\ CarriesShorthand(item)
  /\ \E i \in 1..Len(ret.res) :
       /\ ret.res[i].Name = Name("A") /\ ret.res[i].rule = "expr"
       /\ ret.res[i].Expr = <<"A", " ", ">", "5">>
       /\ ~ret.res[i].Valid
  /\ \E k \in 1..Len(trail.log) :
       trail.log[k].fn = "evalBoolExpr" /\ trail.log[k].out = "true"

(***************************************************************************)
(* C8.  Of the tagged fields the call handed to processTag that are        *)
(* reached through exported fields only, hold a present value and are not  *)
(* excluded by a json name of "-": the field is passed over (no Result, no *)
(* backend call, the call does not end there) exactly when asJSON is set,  *)
(* the json tag ends with ",omitempty", the field's type is not a struct   *)
(* and the resolved value is the zero value of its type.  In every other   *)
(* case the processing goes on to the field's rules, zero value or not.    *)
(***************************************************************************)
Tagged(f) == f.expr # <<>> \/ f.regexp # <<>>

Present(val) == ~(val.kind \in {"ptr", "interface"} /\ val.isnil)

\* The value under the pointer or interface of the field, if it is one.
Resolved(val) == IF val.kind \in {"ptr", "interface"} THEN val.elem ELSE val

Elidable(pos) ==
  /\ asJSON
  /\ HasSuffix(pos.f.json, OmitEmptySuffix)
  /\ Kind(pos.f.val) # "struct"
  /\ IsZeroValue(Resolved(pos.f.val))

InRules(pos) ==
  /\ Tagged(pos.f)
  /\ ~pos.ro
  /\ Present(pos.f.val)
  /\ ~(asJSON /\ pos.f.json = JSONDash)
  /\ StepsAt({"processTag"}, pos.path) # {}

C8_ZeroValueElision ==
  \A pos \in Fields :
    InRules(pos) =>
      /\ Untouched(pos.path) <=> Elidable(pos)
      /\ (~Elidable(pos) /\ ~StoppedAt(pos.path)) =>
           \A rule \in {"expr", "regexp"} :
             (IF rule = "expr" THEN pos.f.expr ELSE pos.f.regexp) # <<>> =>
               \E k \in StepsAt(Backends, pos.path) :
                 RuleOf(trail.log[k].fn) = rule

\* Under JSON rules a call passed over a tagged zero integer behind an
\* omitempty tag and went on to evaluate the rules of another field.
C8_Witness ==
  /\ Plain
  /\ asJSON
  /\ \E pos \in Fields :
       /\ InRules(pos)
       /\ Elidable(pos)
       /\ pos.f.val = VInt("int", 0)
       /\ Untouched(pos.path)
       /\ \E k \in 1..Len(trail.log) :
            trail.log[k].fn \in Backends /\ trail.log[k].path # pos.path

(***************************************************************************)
(* C9.  Under asJSON a field whose json tag is "-" gets no Result and no   *)
(* backend call, and the call does not end at it, whatever its value and   *)
(* rule texts.  Without asJSON the call does what it does on the record    *)
(* that has no json tag on that field: the same steps, Results and return. *)
(***************************************************************************)
CarriesDash(it) ==
  it.kind = "struct"
    /\ \E i \in 1..Len(it.fields) : it.fields[i].json = JSONDash

\* The same record with the json tag "-" taken off.
WithoutDash(it) ==
  [it EXCEPT !.fields =
     [i \in 1..Len(it.fields) |->
        IF it.fields[i].json = JSONDash
        THEN [it.fields[i] EXCEPT !.json = NoText]
        ELSE it.fields[i]]]

C9_DashExcludedUnderJSON ==
  /\ asJSON =>
       \A pos \in Fields : pos.f.json = JSONDash => Untouched(pos.path)
  /\ (~asJSON /\ call.entry # "none" /\ CarriesDash(item)) =>
       LET Same(twin) ==
             /\ twin.log = trail.log
             /\ twin.res = trail.res
             /\ twin.st = trail.st /\ twin.err = trail.err
             /\ doValidation(twin) = ret
       IN Same(Outcome(call.entry, before, asJSON, showSuccesses,
                       Argument(WithoutDash(item), call.form), FALSE))

\* Under asJSON an exported field with json:"-" and a rule text that does
\* not compile was handed to processTag, and the call returned Results of
\* another field and no error.
C9_Witness ==
  /\ Plain
  /\ asJSON
  /\ ret.res # <<>>
  /\ \E pos \in Fields :
       /\ pos.f.json = JSONDash
       /\ pos.f.expr = ExprSyntax
       /\ ~pos.ro
       /\ pos.f.val = VInt("int", MaxInt)
       /\ StepsAt({"processTag"}, pos.path) # {}

(***************************************************************************)
(* C10.  Under asJSON, Validate hands a non-exported field to neither      *)
(* processTag nor a backend and reports no Result for it, yet traverses    *)
(* the field's value.  In every call that ran to its end, every field of   *)
(* the graph had its value traversed, tag-processed or not.                *)
(***************************************************************************)
Exported(f) == IsUpper(Head(f.name))

C10_DescentPastSkippedField ==
  /\ (asJSON /\ call.entry = "Validate") =>
       \A pos \in Fields :
         ~Exported(pos.f) =>
           /\ Untouched(pos.path)
           /\ StepsAt({"processTag"}, pos.path) = {}
  /\ trail.st = "ok" =>
       \A pos \in Fields :
         /\ StepsAt({"traverse"}, pos.path) # {}
         /\ (Exported(pos.f) \/ ~asJSON) <=>
              StepsAt({"processTag"}, pos.path) # {}

\* Under asJSON, Validate passed over a tagged non-exported field and
\* reported the tagged field of the record it holds.
C10_Witness ==
  /\ Plain
  /\ asJSON
  /\ call.entry = "Validate"
  /\ \E pos, sub \in Fields :
       /\ ~Exported(pos.f)
       /\ Tagged(pos.f)
       /\ pos.f.val.kind = "struct"
       /\ sub.path = Step(pos.path, "field", 1)
       /\ Tagged(sub.f)
       /\ ResultsAt(sub.path) # {}
       /\ Untouched(pos.path)

(***************************************************************************)
(* C11.  A tagged field that is a nil pointer or a nil interface gets no   *)
(* Result and no backend call, and the call does not end at it (no Access  *)
(* or Mapping error), exported or not, through either entry point.         *)
(***************************************************************************)
C11_NilReferenceSkipped ==
  \A pos \in Fields :
    (Tagged(pos.f) /\ ~Present(pos.f.val)) => Untouched(pos.path)

\* Without JSON rules, Validate handed a tagged non-exported nil pointer to
\* processTag and the call returned without error.
C11_Witness ==
  /\ Plain
  /\ ~asJSON
  /\ call.entry = "Validate"
  /\ \E pos \in Fields :
       /\ Tagged(pos.f)
       /\ ~Exported(pos.f)
       /\ pos.f.val = VNilPtr
       /\ StepsAt({"processTag"}, pos.path) # {}

AccessorKinds ==
  {"string", "bool", "int", "int16", "int32", "int64", "uint", "uint16",
   "uint32", "uint64"}

C13_AddressableNeedsPointer ==
  call.entry = "ValidateAddressable" =>
    IF Argument(item, call.form).kind # "ptr"
    THEN /\ ret = Returned(FALSE, <<>>, "not addressable")
         /\ trail.log = <<>>
         /\ trail.res = <<>>
         /\ eval = before
    ELSE item.kind # "invalid" =>
           /\ trail.log # <<>>
           /\ trail.log[1].fn = "traverse" /\ trail.log[1].path = <<>>
           /\ \A pos \in Fields :
                (/\ Len(pos.path) = 1
                 /\ Tagged(pos.f) /\ ~Exported(pos.f) /\ Present(pos.f.val)
                 /\ StepsAt({"processTag"}, pos.path) # {}) =>
                  /\ StepsAt(Backends, pos.path) # {}
                  /\ ~(StoppedAt(pos.path) /\ trail.err = "access")

\* A record with a tagged field, handed over by value after a call that
\* left a compiled script in the evaluator.
C13_Witness ==
  /\ call = [entry |-> "ValidateAddressable", form |-> "value"]
  /\ item.kind = "struct"
  /\ \E i \in 1..Len(item.fields) : Tagged(item.fields[i])
  /\ DOMAIN before.scripts # {}
  /\ ret = Returned(FALSE, <<>>, "not addressable")

\* ValidateAddressable with a pointer, without JSON rules.
AddressableMode ==
  /\ call.entry = "ValidateAddressable"
  /\ Argument(item, call.form).kind = "ptr"
  /\ ~asJSON

\* The tagged non-exported fields holding a value that processTag was
\* handed in the last call.
PrivateReached ==
  {pos \in Fields :
     /\ Tagged(pos.f) /\ ~Exported(pos.f) /\ Present(pos.f.val)
     /\ StepsAt({"processTag"}, pos.path) # {}}

RECURSIVE AddrAlong(_, _, _)
AddrAlong(val, path, addr) ==
  IF path = <<>> THEN addr
  ELSE CASE Head(path)[1] = "field" ->
              AddrAlong(val.fields[Head(path)[2]].val, Tail(path), addr)
         [] Head(path)[1] = "index" ->
              AddrAlong(val.elems[Head(path)[2]], Tail(path),
                        val.kind = "slice" \/ addr)
         [] Head(path)[1] = "deref" ->
              AddrAlong(val.elem, Tail(path), val.kind = "ptr")
         [] Head(path)[1] = "key" ->
              AddrAlong(val.keys[Head(path)[2]], Tail(path), FALSE)
         [] Head(path)[1] = "value" ->
              AddrAlong(val.vals[Head(path)[2]], Tail(path), FALSE)

\* The value a field's rule is about, under every pointer and interface the
\* field holds, and whether that value lies in addressable memory.
RECURSIVE Innermost(_, _)
Innermost(val, addr) ==
  IF val.kind \in {"ptr", "interface"} /\ ~val.isnil
  THEN Innermost(val.elem, val.kind = "ptr")
  ELSE [val |-> val, addr |-> addr]

\* The field's value can be read in addressable mode: it is of an accessor
\* kind, or it lies in addressable memory.
Readable(pos) ==
  \/ Resolved(pos.f.val).kind \in AccessorKinds
  \/ Innermost(pos.f.val,
               AddrAlong(StartOf(call.entry, item, call.form), pos.path,
                         TRUE)).addr

PrivateVisited ==
  {pos \in Fields :
     /\ Tagged(pos.f) /\ ~Exported(pos.f) /\ Present(pos.f.val)
     /\ StepsAt({"traverse"}, pos.path) # {}}

(***************************************************************************)
(* C15.  As stated: under JSON rules a tagged non-exported field holding a *)
(* value is tag-processed when the call is ValidateAddressable with a      *)
(* pointer.                                                                *)
(***************************************************************************)
C15_AddressableProcessesPrivate ==
  (/\ asJSON
   /\ call.entry = "ValidateAddressable"
   /\ Argument(item, call.form).kind = "ptr") =>
    \A pos \in PrivateVisited : StepsAt({"processTag"}, pos.path) # {}

(***************************************************************************)
(* C15, amended.  Under JSON rules a tagged non-exported field is skipped  *)
(* for tag processing by ValidateAddressable as it is by Validate: it is   *)
(* not handed to processTag, none of its rules reaches a backend, it has   *)
(* no Result and the call does not end at it; its value is still descended *)
(* into.  The entry point changes how a private value is read, not which   *)
(* fields are tag-processed.                                               *)
(***************************************************************************)
C15_PrivateSkippedUnderJSONInBothModes ==
  asJSON =>
    \A pos \in Fields :
      ~Exported(pos.f) =>
        /\ StepsAt({"processTag"}, pos.path) = {}
        /\ StepsAt(Backends, pos.path) = {}
        /\ ResultsAt(pos.path) = {}
        /\ ~StoppedAt(pos.path)
        /\ (trail.st = "ok" => StepsAt({"traverse"}, pos.path) # {})

\* ValidateAddressable with a pointer, under JSON rules, ran to its end over
\* a record whose tagged private field holds a record: the field was passed
\* over and the record it holds gave a Result.
C15_Witness ==
  /\ asJSON
  /\ call.entry = "ValidateAddressable"
  /\ Plain
  /\ \E pos \in PrivateVisited :
       /\ pos.f.val.kind = "struct"
       /\ StepsAt({"processTag"}, pos.path) = {}
       /\ \E sub \in Fields :
            /\ IsPrefix(pos.path, sub.path) /\ sub.path # pos.path
            /\ ResultsAt(sub.path) # {}

CompiledTexts(e) ==
  {e.compiles[k].text : k \in {i \in 1..Len(e.compiles) : e.compiles[i].ok}}

(***************************************************************************)
(* C17.  On one evaluator each rule text is compiled successfully at most  *)
(* once.  Over the calls of vm.Compile made so far: none was made for a    *)
(* text that an earlier one had compiled, and the script cache holds       *)
(* exactly the texts that compiled.  And for the next call of evalBoolExpr *)
(* from this evaluator, with any text: every entry of the cache is kept    *)
(* with its script; a text that is in the cache is not compiled; a text    *)
(* that does not compile adds no entry; a call that ends with a Mapping    *)
(* error does not reach the cache; a text that is not in the cache and     *)
(* compiles is compiled once and entered.                                  *)
(***************************************************************************)
C17_ScriptCompiledAtMostOnce ==
  LET cs == eval.compiles
      Kept(out) ==
        \A t \in DOMAIN eval.scripts :
          /\ t \in DOMAIN out.eval.scripts
          /\ out.eval.scripts[t] = eval.scripts[t]
      Next1(expr, out) ==
        /\ Kept(out)
        /\ expr \in DOMAIN eval.scripts => out.eval.compiles = cs
        /\ out.err = "compile" =>
             /\ out.eval.scripts = eval.scripts
             /\ out.eval.compiles = Append(cs, [text |-> expr, ok |-> FALSE])
        /\ out.err = "mapping" =>
             /\ out.eval.scripts = eval.scripts
             /\ out.eval.compiles = cs
        /\ (expr \notin DOMAIN eval.scripts
            /\ out.err \notin {"compile", "mapping"}) =>
             /\ out.eval.compiles = Append(cs, [text |-> expr, ok |-> TRUE])
             /\ DOMAIN out.eval.scripts = DOMAIN eval.scripts \cup {expr}
  IN /\ \A j, k \in 1..Len(cs) :
          (j < k /\ cs[j].text = cs[k].text) => ~cs[j].ok
     /\ DOMAIN eval.scripts = CompiledTexts(eval)
     /\ \A expr \in ExprTexts \cup DOMAIN eval.scripts,
           v \in {VInt("int", 0), VInt("int", MaxInt)} :
          Next1(expr, evalBoolExpr(eval, Name("A"), v, expr))

\* Two fields at different places carried the same rule text in one call,
\* both reached the evaluator, and the text was compiled once.
C17_Witness ==
  \E j, k \in {i \in 1..Len(trail.log) : trail.log[i].fn = "evalBoolExpr"} :
    /\ j < k
    /\ trail.log[j].text = trail.log[k].text
    /\ trail.log[j].path # trail.log[k].path
    /\ trail.log[j].text \notin DOMAIN before.scripts
    /\ Cardinality({i \in 1..Len(eval.compiles) :
                      eval.compiles[i].text = trail.log[j].text}) = 1
    /\ trail.log[j].text \in DOMAIN eval.scripts

(***************************************************************************)
(* C18.  A call of evalRegexp with a pattern that does not compile answers *)
(* with a Pattern error; the call of Validate or ValidateAddressable it    *)
(* was made in returns that error with ok = FALSE and no Results; and the  *)
(* pattern is not entered in the pattern cache.                            *)
(***************************************************************************)
C18_BadPatternIsError ==
  \A k \in 1..Len(trail.log) :
    (trail.log[k].fn = "evalRegexp" /\ ~PatternCompiles(trail.log[k].text)) =>
      /\ trail.log[k].out = "error"
      /\ ret = Returned(FALSE, <<>>, "pattern")
      /\ trail.log[k].text \notin DOMAIN eval.regexps

\* Values of registered and of unregistered types.
BoundValues ==
  {VInt("int", MaxInt), VInt("int64", MaxInt), VTime(MaxInt),
   VString(<<"7">>), Inner(0)}

(***************************************************************************)
(* C19.  For the next call of evalBoolExpr from the evaluator as it is,    *)
(* with a value of any type and a rule that does not assign: when the      *)
(* value's exact type has a registered mapper and the fragment it renders  *)
(* materializes, the variable is bound to that object and not to the       *)
(* value; when the fragment does not materialize the call answers with a   *)
(* Mapping error and leaves the evaluator as it was (no variable bound, no *)
(* script compiled or entered in the cache); when the type has no mapper   *)
(* the variable is bound to the value as it is.  The registrations after   *)
(* the call are those before it, and a call of Validate that meets a       *)
(* Mapping error returns it with ok = FALSE and no Results.                *)
(***************************************************************************)
C19_MappingBindsMaterialized ==
  LET A == Name("A")
      Registered(v, out, obj) ==
        IF obj.err THEN out.err = "mapping" /\ out.eval = eval
        ELSE /\ out.err # "mapping"
             /\ out.eval.vm[A] = obj.obj
             /\ obj.obj # ToValue(v, A)
      Bind(v, out) ==
        /\ out.eval.mapping = eval.mapping
        /\ IF TypeOf(v) \in DOMAIN eval.mapping
           THEN Registered(v, out,
                           Object(Render(eval.mapping[TypeOf(v)], v), A))
           ELSE out.err # "mapping" /\ out.eval.vm[A] = ToValue(v, A)
  IN /\ call.entry # "none" => eval.mapping = before.mapping
     /\ ret.err = "mapping" =>
          /\ ret = Returned(FALSE, <<>>, "mapping")
          /\ trail.log[Len(trail.log)].fn = "evalBoolExpr"
          /\ trail.log[Len(trail.log)].out = "error"
     /\ \A v \in BoundValues, expr \in {ExprAGt, ExprNot, ExprSyntax} :
          Bind(v, evalBoolExpr(eval, A, v, expr))

\* After a call that left scripts in the cache the caller registered, for
\* int, a mapper whose fragment does not parse; the next call met an int
\* field under a rule, returned the Mapping error and left the evaluator as
\* it was.
C19_Witness ==
  /\ "int" \in DOMAIN eval.mapping
  /\ ret = Returned(FALSE, <<>>, "mapping")
  /\ DOMAIN before.scripts # {}
  /\ eval = before

\* An option the constructor accepts: a known name with a bool value.
ValidOption(opt) ==
  opt.Name \in {ProcessAsJSON, ShowSuccessesOption} /\ opt.Value.kind = "bool"

\* The value the last option of that name gives, or the default.
LastOr(options, name, default) ==
  LET at == {i \in 1..Len(options) : options[i].Name = name}
  IN IF at = {} THEN default
     ELSE options[CHOOSE i \in at : \A j \in at : j <= i].Value.b

\* The same options written as the option functions AsJSON and
\* ShowSuccesses.
Functional(options) ==
  [i \in 1..Len(options) |->
     IF options[i].Name = ProcessAsJSON THEN AsJSON(options[i].Value.b)
     ELSE ShowSuccesses(options[i].Value.b)]

(***************************************************************************)
(* C20.  NewValidator with no options gives asJSON = TRUE and              *)
(* showSuccesses = FALSE; with options that all carry a known name and a   *)
(* bool value, each flag is what the last option of its name says, or its  *)
(* default when no option names it, and the Validator is the one the       *)
(* option functions AsJSON and ShowSuccesses make; with an option of an    *)
(* unknown name, or a value that is not a bool, it returns a Configuration *)
(* error and no Validator.                                                 *)
(***************************************************************************)
C20_OptionsCheckedAtConstruction ==
  (call.entry = "NewValidator" /\ call.form = "done") =>
    IF \A i \in 1..Len(call.options) : ValidOption(call.options[i])
    THEN /\ ret.err = ""
         /\ eval # NoValidator
         /\ asJSON = LastOr(call.options, ProcessAsJSON, TRUE)
         /\ showSuccesses = LastOr(call.options, ShowSuccessesOption, FALSE)
         /\ [asJSON |-> asJSON, showSuccesses |-> showSuccesses,
             eval |-> eval] = NewValidator(Functional(call.options))
    ELSE /\ ret.err = "configuration"
         /\ eval = NoValidator

\* NewValidator(Option{ShowSuccesses, true}, Option{ProcessAsJSON, "hi"})
\* returned the error and no Validator.
C20_Witness ==
  /\ call.entry = "NewValidator" /\ call.form = "done"
  /\ call.options = <<Option(ShowSuccessesOption, VBool(TRUE)),
                      Option(ProcessAsJSON, VString(<<"h", "i">>))>>
  /\ ret.err = "configuration"
  /\ eval = NoValidator


(***************************************************************************)
(* Helpers of the claims about Copy, repeated calls and the global scope   *)
(* of the runtime.                                                         *)
(***************************************************************************)
\* The Validator of the program.
This == [asJSON |-> asJSON, showSuccesses |-> showSuccesses, eval |-> eval]

Entries == {"Validate", "ValidateAddressable"}

\* What a call of one of v's entry points on the program's value returns.
Answer(v, entry, form, swap) ==
  doValidation(Outcome(entry, v.eval, v.asJSON, v.showSuccesses,
                       Argument(item, form), swap))

\* The names a script reads or assigns.
RECURSIVE Idents(_)
Idents(ast) ==
  CASE ast.k = "id" -> {ast.name}
    [] ast.k = "not" -> Idents(ast.a)
    [] ast.k = "bin" -> Idents(ast.a) \cup Idents(ast.b)
    [] ast.k = "asg" -> {ast.name} \cup Idents(ast.a)
    [] OTHER -> {}

\* The script of the field names no variable but the field's own.
OwnName(f) ==
  LET Names(comp) == IF comp.ok THEN Idents(comp.script) ELSE {}
  IN Names(Compile(ScriptText(f))) \subseteq {f.name}

\* No expression rule in the graph names a variable other than its field's.
SelfContained(it) == \A pos \in Positions(it, <<>>, FALSE) : OwnName(pos.f)

Twice(v, entry, form, first, second) ==
  LET Again(c1) ==
        [first |-> doValidation(c1),
         second |-> doValidation(
                      Outcome(entry, c1.eval, v.asJSON, v.showSuccesses,
                              Argument(item, form), second))]
  IN Again(Outcome(entry, v.eval, v.asJSON, v.showSuccesses,
                   Argument(item, form), first))

Repeats(both) == both.first.status # "panic" => both.second = both.first

C24_Idempotent ==
  ret.status # "panic" =>
    \A entry \in Entries, form \in Forms, first \in BOOLEAN,
       second \in BOOLEAN :
      Repeats(Twice(This, entry, form, first, second))

\* The statement with every map ranged over in the same order by both
\* calls: a rule that names a variable bound elsewhere still sees what the
\* call before left behind.
C24_IdempotentInOneOrder ==
  ret.status # "panic" =>
    \A entry \in Entries, form \in Forms, order \in BOOLEAN :
      Repeats(Twice(This, entry, form, order, order))

(***************************************************************************)
(* C24, amended.  When both calls range over every map in the same order   *)
(* and no expression rule of the value names a variable other than its own *)
(* field's, the second call returns what the first returned: the same ok   *)
(* and the same Results in the same order.                                 *)
(***************************************************************************)
C24_IdempotentOwnNamesInOneOrder ==
  (ret.status # "panic" /\ SelfContained(item)) =>
    \A entry \in Entries, form \in Forms, order \in BOOLEAN :
      Repeats(Twice(This, entry, form, order, order))

\* The map of two records validated twice in the reversed order by a
\* Validator that has made a call already: both calls return the same two
\* Results, no error.
C24_Witness ==
  LET Same(both) ==
        /\ both.first.status = "returned"
        /\ Len(both.first.res) = 2
        /\ both.second = both.first
  IN /\ item = InnerMap
     /\ showSuccesses
     /\ call.entry = "Validate"
     /\ eval.scripts # <<>>
     /\ Same(Twice(This, "Validate", "value", TRUE, TRUE))


\* The built-in primitive kinds of the model: string, bool and every width
\* of signed and unsigned integer.
PrimitiveKinds == {"string", "bool"} \cup IntKinds \cup UintKinds

(***************************************************************************)
(* C25.  Without JSON rules, Validate resolves a tagged non-exported field *)
(* of any built-in primitive kind (string, bool, every width of signed and *)
(* unsigned integer) and evaluates its rule: the rule reaches a backend    *)
(* and the call does not end at the field with an Access error.            *)
(***************************************************************************)
C25_PrivatePrimitiveResolved ==
  (~asJSON /\ call.entry = "Validate") =>
    \A pos \in Fields :
      (/\ Tagged(pos.f) /\ ~Exported(pos.f) /\ Present(pos.f.val)
       /\ Resolved(pos.f.val).kind \in PrimitiveKinds
       /\ StepsAt({"processTag"}, pos.path) # {}) =>
        /\ ~(StoppedAt(pos.path) /\ trail.err = "access")
        /\ StepsAt(Backends, pos.path) # {}


\* The last call entered traverse once for the position and never twice for
\* any position.
VisitedOnce(path) == Cardinality(StepsAt({"traverse"}, path)) = 1

NoSecondVisit ==
  \A j, k \in 1..Len(trail.log) :
    (/\ trail.log[j].fn = "traverse" /\ trail.log[k].fn = "traverse"
     /\ trail.log[j].path = trail.log[k].path) => j = k

(***************************************************************************)
(* C26.  Every call of Validate or ValidateAddressable on a finite acyclic *)
(* graph comes back: it returns (ok, Results) or an error, and a call that *)
(* ran to the end has entered traverse exactly once for every position it  *)
(* can reach from the root and never twice for the same path.              *)
(***************************************************************************)
C26_CallReturnsAfterOneVisitPerPath ==
  call.entry \in Entries =>
    /\ ret.status = "returned"
    /\ NoSecondVisit
    /\ (Plain /\ StartOf(call.entry, item, call.form).kind # "invalid") =>
         /\ VisitedOnce(<<>>)
         /\ \A pos \in Fields : VisitedOnce(pos.path)


(***************************************************************************)
(* C27.  Under JSON rules Validate never returns an Access error, whatever *)
(* the graph: fields that are not exported are not tag-processed, and an   *)
(* exported tagged field of a record held by such a field is evaluated.    *)
(***************************************************************************)
C27_NoAccessErrorUnderJSON ==
  (asJSON /\ call.entry = "Validate") =>
    ~(ret.status = "returned" /\ ret.err = "access")


(***************************************************************************)
(* C28.  The expression rule of a field that carries a non-empty expr text *)
(* is processed to the end: Results are appended or an error is returned.  *)
(* No call crashes at such a field, a text of blanks only included, unless *)
(* it is the field's pattern rule that crashed.                            *)
(***************************************************************************)
C28_ExprRuleCompletes ==
  call.entry \in Entries =>
    \A pos \in Fields :
      (/\ exprTagOf(pos.f) # <<>>
       /\ ret.status = "panic"
       /\ StoppedAt(pos.path)) =>
        \E k \in StepsAt({"evalRegexp"}, pos.path) : trail.log[k].out = "panic"


(***************************************************************************)
(* C29.  A root that holds no value is passed over: Validate handed nil or *)
(* a nil pointer, and ValidateAddressable handed a nil pointer, return     *)
(* ok = TRUE, no Results and no error.                                     *)
(***************************************************************************)
C29_NilRootSkipped ==
  (/\ item = VInvalid
   /\ \/ call.entry = "Validate"
      \/ call.entry = "ValidateAddressable" /\ call.form = "pointer") =>
    ret = Returned(TRUE, <<>>, "")


\* What a rule says: the verdict, or the error.
Verdict(out) == [bv |-> out.bv, err |-> out.err]

\* The fields a rule is evaluated for here: two names, two values, and the
\* expression texts as processTag hands them to the evaluator.
RuleNames == {Name("A"), Name("D")}

RuleValues == {VInt("int", 0), VInt("int", MaxInt)}

RuleScripts(name) ==
  { ScriptText(Field(name, NoText, e, NoText, VInt("int", 0))) :
      e \in {ExprGt, ExprAGt, ExprNot, ExprAssign, ExprUnbound, ExprSyntax} }

\* The rule says the same to the evaluator as it is and to one with the same
\* type mappers that has processed nothing yet.
SameAsAtFirst(name, val, text) ==
  Verdict(evalBoolExpr(eval, name, val, text))
    = Verdict(evalBoolExpr(copy(eval), name, val, text))

(***************************************************************************)
(* C30.  What the expression rule of a field says depends on the name of   *)
(* the field, its value and the rule text only: whatever the evaluator has *)
(* processed before, in this call or in earlier ones, the rule says what   *)
(* it says to an evaluator that has processed nothing.                     *)
(***************************************************************************)
C30_RuleSeesOwnFieldOnly ==
  ret.status # "panic" =>
    \A name \in RuleNames, val \in RuleValues :
      \A text \in RuleScripts(name) : SameAsAtFirst(name, val, text)

(***************************************************************************)
(* C30, amended.  What the expression rule of a field says depends on the  *)
(* name of the field, its value and the rule text only, provided the text  *)
(* names no variable other than the field's own: whatever the evaluator    *)
(* has processed before, such a rule says what it says to an evaluator     *)
(* that has processed nothing.                                             *)
(***************************************************************************)
C30_OwnNameRuleSeesOwnFieldOnly ==
  ret.status # "panic" =>
    \A name \in RuleNames, val \in RuleValues :
      \A text \in RuleScripts(name) :
        OwnName(Field(name, NoText, text, NoText, val)) =>
          SameAsAtFirst(name, val, text)

\* After a call that bound A to MaxInt and cached the script "A>5", the
\* rule A>5 for a field A that holds 0 says false, as it does at first.
C30_Witness ==
  /\ Name("A") \in DOMAIN eval.vm
  /\ eval.vm[Name("A")] = JSNum(MaxInt)
  /\ ExprAGt \in DOMAIN eval.scripts
  /\ Verdict(evalBoolExpr(eval, Name("A"), VInt("int", 0), ExprAGt))
       = [bv |-> FALSE, err |-> ""]
  /\ SameAsAtFirst(Name("A"), VInt("int", 0), ExprAGt)

\* The context the call of goroutine record t ends in when nothing else runs
\* from its start to its return.
Alone(t) ==
  Outcome(t.entry, t.start, t.val.asJSON, t.val.showSuccesses,
          Argument(item, t.form), t.swap)

\* The call of t has returned to its caller.
HasReturned(t) == t.pc = "idle" /\ t.ret.status = "returned"

\* g and h hold two Validators, not the same one.
TwoInstances(g, h) ==
  /\ tasks[g].val # NoValidator
  /\ tasks[h].val # NoValidator
  /\ tasks[g].inst # tasks[h].inst

\* C22: of two goroutines that hold two distinct Validators (one from
\* NewValidator, the other from NewValidator or from Copy), whatever the
\* interleaving of their Validate, ValidateAddressable and AddTypeMapping
\* calls: the evaluator of each is always as its own last step left it (the
\* other's calls change neither its caches, its bindings nor its registry),
\* and a call that has ended has returned, and done on the way, exactly what
\* it does when it runs alone from the evaluator it started with.
C22_InstancesShareNothing ==
  \A g, h \in Goroutines :
    TwoInstances(g, h) =>
      /\ eval[tasks[g].val.eval] = tasks[g].own
      /\ ~tasks[g].mixed
      /\ tasks[g].pc = "idle" /\ tasks[g].ret.status # "none" =>
           /\ tasks[g].ret = doValidation(Alone(tasks[g]))
           /\ tasks[g].ctx = Alone(tasks[g])

\* Two Validators, one a Copy of the other, a mapper registered with one of
\* them only; a call on each has run while the other ran and has returned
\* results.
C22_Witness ==
  /\ TwoInstances(1, 2)
  /\ tasks[2].from = "Copy"
  /\ eval[tasks[1].val.eval].mapping # eval[tasks[2].val.eval].mapping
  /\ \A g \in Goroutines :
       /\ HasReturned(tasks[g])
       /\ tasks[g].overlapped
  /\ \E g \in Goroutines : tasks[g].ret.res # <<>>

=============================================================================
